---------------------------- MODULE Spec2Model ----------------------------
(***************************************************************************)
(* A model of the Flow Director (flow_engine.js, src/unnamed/part_000):    *)
(* the statistical estimators, the seeded sampler, the PlayerModel, the    *)
(* BeatScheduler, the FlowController and the FlowDirector that owns them.  *)
(*                                                                         *)
(* Numbers.  The program computes in IEEE doubles.  The model computes in  *)
(* fixed point: a real r is the integer round(r * SCALE), SCALE = 10000,   *)
(* so 0.62 is 6200 and 1.0 is 10000.  Times stay in milliseconds (whole    *)
(* numbers) and the pacing delay is kept in hundredths of a millisecond.   *)
(* Products and quotients are rounded to the nearest unit.  All integer    *)
(* operations are arranged to stay inside 32 bits.                         *)
(***************************************************************************)
EXTENDS Integers, Sequences, FiniteSets, TLC

SCALE == 100 * 100
HALF == SCALE \div 2

Abs(x) == IF x < 0 THEN -x ELSE x
Min(x, y) == IF x <= y THEN x ELSE y
Max(x, y) == IF x >= y THEN x ELSE y

\* x * y of two fixed-point numbers, rounded; exact whenever the result fits.
Mul(x, y) ==
  LET xq == x \div SCALE
      xr == x % SCALE
      yq == y \div SCALE
      yr == y % SCALE
  IN xq * yq * SCALE + xq * yr + xr * yq + ((xr * yr + HALF) \div SCALE)

\* x / y of two fixed-point numbers (y > 0), rounded.  Large operands are
\* halved together until x * SCALE fits.
RECURSIVE Div(_, _)
Div(x, y) ==
  IF Abs(x) > 200000
    THEN Div(x \div 2, Max(1, y \div 2))
    ELSE (x * SCALE + (y \div 2)) \div y

\* The two values of a Number that are no quantity: Infinity is the
\* out-of-range value 10^9 (-Infinity its negative), and NaN is a value
\* beyond both, so that no comparison the model makes takes it for a finite
\* number.  Arithmetic on NaN is never carried out: every operation that
\* can meet it yields NaN, as IEEE arithmetic does.
Infinity == 1000 * 1000 * 1000
NaN == 2 * Infinity

\* const clamp = (v, a, b) => Math.min(Math.max(v, a), b);
\* Math.max and Math.min return NaN when an argument is NaN
clamp(v, a, b) == IF v = NaN THEN NaN ELSE Min(Max(v, a), b)

ISqrt(n) ==
      \* Math.sqrt on a fixed-point number: floor(sqrt(x * SCALE)), by bisection
      \* on r with r * r <= x * SCALE, the product taken without overflow.
  LET RECURSIVE SqrtBisect(_, _, _)
      SqrtBisect(n0, lo, hi) ==
        \* largest r in lo..hi with r * r <= n0 (n0 < 2^31, hi <= 46340)
        IF lo >= hi THEN lo
        ELSE LET mid == (lo + hi + 1) \div 2
             IN IF mid * mid <= n0 THEN SqrtBisect(n0, mid, hi)
                                  ELSE SqrtBisect(n0, lo, mid - 1)
  IN
            SqrtBisect(n, 0, 46340)

\* sqrt of a fixed-point x >= 0: sqrt(x/S) * S = sqrt(x * S).  For x beyond
\* 2^31 / S the root is taken of x / 100 and scaled by 10.
Sqrt(x) ==
  IF x <= 0 THEN 0
  ELSE IF x < 200000 THEN ISqrt(x * SCALE)
  ELSE ISqrt((x \div 100) * SCALE) * 10

(***************************************************************************)
(* Math.log and Math.cos, in fixed point.                                  *)
(***************************************************************************)

RECURSIVE Pow2(_)
Pow2(k) == IF k <= 0 THEN 1 ELSE 2 * Pow2(k - 1)

\* ln(n) as a fixed-point number, for an integer n in 1 .. 2^31 - 1.
LnInt(n) ==
      \* ln(m) for a fixed-point m in [1, 2): 2 * atanh((m - 1) / (m + 1)).
  LET LnMantissa(m) ==
        LET series(y, y2, y3) ==
              LET tail(y5) == y5 \div 5 + Mul(y5, y2) \div 7
              IN 2 * (y + y3 \div 3 + tail(Mul(y3, y2)))
            cube(y, y2) == series(y, y2, Mul(y, y2))
            square(y) == cube(y, Mul(y, y))
        IN square(Div(m - SCALE, m + SCALE))
  IN
  LET RECURSIVE Log2Floor(_)
      Log2Floor(n0) == IF n0 <= 1 THEN 0 ELSE 1 + Log2Floor(n0 \div 2)
  IN
  LET scaled(k) ==
        (k * 693147) \div 100
          + LnMantissa(IF k >= 14 THEN ((n \div Pow2(k - 14)) * SCALE) \div 16384
                                  ELSE (n * SCALE) \div Pow2(k))
  IN scaled(Log2Floor(n))

\* Math.log(x) for a fixed-point x > 0: ln(x * SCALE) - ln(SCALE).
Ln(x) == LnInt(x) - 92103

\* Math.cos(2 * Math.PI * v) for a fixed-point v in [0, 1).
Cos2Pi(v) ==
      \* cos(t) for a fixed-point angle t in [0, pi/2], by its Taylor polynomial.
  LET CosQuadrant(t) ==
        LET poly(t2, t4) ==
              SCALE - t2 \div 2 + t4 \div 24 - Mul(t4, t2) \div 720 + Mul(t4, t4) \div 40320
            fourth(t2) == poly(t2, Mul(t2, t2))
        IN fourth(Mul(t, t))
  IN
  LET f == IF v > HALF THEN SCALE - v ELSE v
  IN IF f > SCALE \div 4 THEN -CosQuadrant(Mul(62832, HALF - f))
                          ELSE CosQuadrant(Mul(62832, f))

(***************************************************************************)
(* 32-bit words, as <<high 16 bits, low 16 bits>>, and the operations      *)
(* mulberry32 uses on them: +, ^, |, >>> and Math.imul, all modulo 2^32.   *)
(***************************************************************************)

Xor32(x, y) ==
  LET RECURSIVE Xor16(_, _)
      Xor16(a, b) ==
        IF a = 0 THEN b
        ELSE IF b = 0 THEN a
        ELSE ((a + b) % 2) + 2 * Xor16(a \div 2, b \div 2)
  IN
               <<Xor16(x[1], y[1]), Xor16(x[2], y[2])>>
Or32(x, y) ==
  LET RECURSIVE Or16(_, _)
      Or16(a, b) ==
        IF a = 0 THEN b
        ELSE IF b = 0 THEN a
        ELSE Max(a % 2, b % 2) + 2 * Or16(a \div 2, b \div 2)
  IN
              <<Or16(x[1], y[1]), Or16(x[2], y[2])>>

Add32(x, y) ==
  LET lo == x[2] + y[2]
      hi == x[1] + y[1] + (lo \div 65536)
  IN <<hi % 65536, lo % 65536>>

\* x >>> n for 0 < n < 16
Shr32(x, n) ==
  LET p == Pow2(n)
  IN <<x[1] \div p, (x[1] % p) * Pow2(16 - n) + (x[2] \div p)>>

\* Math.imul(x, y): the low 32 bits of x * y
Imul32(x, y) ==
      \* the 32-bit product of two 16-bit numbers
  LET Mul16(a, b) ==
        LET p0 == (a % 256) * b
            p1 == (a \div 256) * b
        IN Add32(<<p0 \div 65536, p0 % 65536>>, <<(p1 \div 256) % 65536, (p1 % 256) * 256>>)
  IN
  LET sum(ll, cross) == <<(ll[1] + cross) % 65536, ll[2]>>
  IN sum(Mul16(x[2], y[2]), Mul16(x[1], y[2])[2] + Mul16(x[2], y[1])[2])

\* Seeded RNG for reproducibility (mulberry32).  The closure variable a is
\* the state; one call advances it and yields the 32-bit numerator of the
\* uniform double returned (numerator / 4294967296).
mulberry32(seed) ==
  LET Word(n) == <<(n \div 65536) % 65536, n % 65536>>
  IN
                    Word(seed)

rngCall(a) ==
  LET result(a1, t) == [a |-> a1, out |-> Xor32(t, Shr32(t, 14))]
      second(a1, t) ==
        result(a1, Xor32(Add32(t, Imul32(Xor32(t, Shr32(t, 7)), Or32(<<0, 61>>, t))), t))
      first(a1) == second(a1, Imul32(Xor32(a1, Shr32(a1, 15)), Or32(<<0, 1>>, a1)))
  IN first(Add32(a, <<27947, 31221>>))                      \* a += 0x6D2B79F5

\* the uniform double in [0, 1) as a fixed-point number (rounded down)
Uniform(w) == (w[1] * SCALE + ((w[2] * SCALE) \div 65536)) \div 65536

\* Math.log of the uniform double numerator / 2^32, numerator > 0
LnUniform(w) ==
  IF w[1] > 0
    THEN LnInt(w[1] * 32768 + (w[2] \div 2)) - ((31 * 693147) \div 100)
    ELSE LnInt(w[2]) - ((32 * 693147) \div 100)

(***************************************************************************)
(* Samplers.  Each takes the RNG state a and returns the state after its   *)
(* draws together with the value sampled: [v |-> value, a |-> state].      *)
(***************************************************************************)

\* Box-Muller
normalSample(a) ==
      \* while (u === 0) u = rng();
  LET RECURSIVE DrawNonZero(_)
      DrawNonZero(a0) ==
        LET again(r) == IF r.out = <<0, 0>> THEN DrawNonZero(r.a) ELSE r
        IN again(rngCall(a0))
  IN
  LET result(ru, rv) ==
        [v |-> Mul(Sqrt(-2 * LnUniform(ru.out)), Cos2Pi(Uniform(rv.out))),
         a |-> rv.a]
      second(ru) == result(ru, DrawNonZero(ru.a))
  IN second(DrawNonZero(a))

\* Marsaglia-Tsang for k >= 1.  The shape k is an arm weight: a whole
\* number, 1 at construction and only ever incremented, so the k < 1 boost
\* of the source is never entered and is not modelled.
RECURSIVE gammaLoop(_, _, _)
gammaLoop(d, c, a) ==
  LET accept(v1, v, x2, ru) ==
        IF Uniform(ru.out) < SCALE - Mul(331, Mul(x2, x2))
          THEN [v |-> Mul(d, v), a |-> ru.a]
        ELSE IF \/ ru.out = <<0, 0>>
                \/ LnUniform(ru.out) < (x2 \div 2) + Mul(d, SCALE - v + 3 * Ln(v1))
          THEN [v |-> Mul(d, v), a |-> ru.a]
        ELSE gammaLoop(d, c, ru.a)
      cube(n, v1) ==
        IF v1 <= 0 THEN gammaLoop(d, c, n.a)
        ELSE accept(v1, Mul(Mul(v1, v1), v1), Mul(n.v, n.v), rngCall(n.a))
      try(n) == cube(n, SCALE + Mul(c, n.v))
  IN try(normalSample(a))

gammaSample(k, a) ==
  LET d == k * SCALE - (SCALE \div 3)
      c == Div(SCALE, Sqrt(9 * d))
  IN gammaLoop(d, c, a)

(***************************************************************************)
(* class EMA                                                               *)
(***************************************************************************)
EMA(alpha, initial) == [alpha |-> alpha, value |-> initial, initialized |-> FALSE]

\* EMA_push blending the first value with the constructor's initial value
EMA_pushUnseeded(e, x) ==
  [e EXCEPT !.value = e.value + Mul(e.alpha, x - e.value), !.initialized = TRUE]

EMA_push(e, x) ==
  IF ~e.initialized
    THEN [e EXCEPT !.value = x, !.initialized = TRUE]
  ELSE IF x = NaN \/ e.value = NaN
    THEN [e EXCEPT !.value = NaN]
    ELSE [e EXCEPT !.value = e.value + Mul(e.alpha, x - e.value)]

(***************************************************************************)
(* class RunningStats (Welford).  Samples and mean are in milliseconds;    *)
(* m2 is kept in units of 100 ms^2 so that the sum stays inside 32 bits.   *)
(***************************************************************************)
RunningStats == [n |-> 0, mean |-> 0, m2 |-> 0, min |-> Infinity, max |-> -Infinity]

IsFinite(x) == -Infinity < x /\ x < Infinity

\* RunningStats_push counting a value that is not finite as a sample
RunningStats_pushCounted(rs, x) ==
  IF ~IsFinite(x) THEN [rs EXCEPT !.n = rs.n + 1]
  ELSE
    LET n      == rs.n + 1
        delta  == x - rs.mean
        mean   == rs.mean + ((2 * delta + n) \div (2 * n))
        delta2 == x - mean
        prod   == delta * (delta2 \div 100) + ((delta * (delta2 % 100)) \div 100)
    IN [n |-> n, mean |-> mean, m2 |-> rs.m2 + prod,
        min |-> Min(rs.min, x), max |-> Max(rs.max, x)]

\* push(x), x a Number (Number(x) is x itself)
RunningStats_push(rs, x) ==
  IF ~IsFinite(x) THEN rs
  ELSE
    LET n      == rs.n + 1
        delta  == x - rs.mean
        mean   == rs.mean + ((2 * delta + n) \div (2 * n))
        delta2 == x - mean
        prod   == delta * (delta2 \div 100) + ((delta * (delta2 % 100)) \div 100)
    IN [n |-> n, mean |-> mean, m2 |-> rs.m2 + prod,
        min |-> Min(rs.min, x), max |-> Max(rs.max, x)]

\* variance in ms^2
RunningStats_variance(rs) ==
  IF rs.n > 1
    THEN (rs.m2 \div (rs.n - 1)) * 100 + (((rs.m2 % (rs.n - 1)) * 100) \div (rs.n - 1))
    ELSE 0

\* (x - mean) / std as a fixed-point number; 0 when std is (near) zero
RunningStats_zScore(rs, x) ==
  LET RunningStats_std(rs0) == ISqrt(RunningStats_variance(rs0))
  IN
  LET z(s) == IF s <= 0 THEN 0 ELSE IF x = NaN THEN NaN ELSE Div(x - rs.mean, s)
  IN z(RunningStats_std(rs))

(***************************************************************************)
(* class BetaBanditArm                                                     *)
(***************************************************************************)
BetaBanditArm(name) == [name |-> name, a |-> 1, b |-> 1]

\* BetaBanditArm_update with the weight added on both sides
BetaBanditArm_updateBoth(arm, success, weight) ==
  [arm EXCEPT !.a = arm.a + weight, !.b = arm.b + weight]

BetaBanditArm_update(arm, success, weight) ==
  IF success THEN [arm EXCEPT !.a = arm.a + weight]
             ELSE [arm EXCEPT !.b = arm.b + weight]

BetaBanditArm_sample(arm, a) ==
  LET ratio(ga, gb) ==
        [v |-> IF ga.v + gb.v <= 0 THEN HALF ELSE Div(ga.v, ga.v + gb.v), a |-> gb.a]
      second(ga) == ratio(ga, gammaSample(arm.b, ga.a))
  IN second(gammaSample(arm.a, a))

BetaBanditArm_mean(arm) == Div(arm.a, arm.a + arm.b)

(***************************************************************************)
(* Option bags and observation payloads are functions from the names of    *)
(* the fields present to their values; x.f ?? d is Field(x, "f", d).       *)
(***************************************************************************)
Field(x, f, d) == IF f \in DOMAIN x THEN x[f] ELSE d

(***************************************************************************)
(* class PlayerModel                                                       *)
(***************************************************************************)
PlayerModel(cfg) ==
  [skill          |-> cfg.skillInitial,
   skillVar       |-> cfg.skillVarInitial,
   skillEma       |-> EMA(1000, cfg.skillInitial),
   winRateEma     |-> EMA(800, 5000),
   errorRateEma   |-> EMA(1000, 2000),
   turnTimeStats  |-> RunningStats,
   turnTimeEma    |-> EMA(800, cfg.turnTimeTargetMs),
   hesitationEma  |-> EMA(1200, 0),
   streak         |-> 0,
   volatility     |-> EMA(1000, 2000),
   fatigue        |-> EMA(600, 0),
   engagementEma  |-> EMA(800, 7000),
   flowEma        |-> EMA(800, 7000),
   lastTurnMs     |-> cfg.turnTimeTargetMs,
   lastMistakes   |-> 0,
   lastActions    |-> 0,
   games          |-> 0,
   turns          |-> 0]

\* FatigueLift with a slowdown weighing 0.65 instead of 0.35
FatigueLiftSteep(slow, volatility) ==
  IF slow = NaN \/ volatility = NaN THEN NaN
  ELSE clamp(Mul(6500, Max(0, slow)) + Mul(1200, Max(0, volatility - 3500)), 0, SCALE)

\* FatigueLift with a slowdown weighing 0.15 instead of 0.35
FatigueLiftGentle(slow, volatility) ==
  IF slow = NaN \/ volatility = NaN THEN NaN
  ELSE clamp(Mul(1500, Max(0, slow)) + Mul(1200, Max(0, volatility - 3500)), 0, SCALE)

\* const fatigueLift = clamp(0.35 * Math.max(0, slow)
\*                           + 0.12 * Math.max(0, this.volatility.value - 0.35), 0, 1);
FatigueLift(slow, volatility) ==
  IF slow = NaN \/ volatility = NaN THEN NaN
  ELSE clamp(Mul(3500, Max(0, slow)) + Mul(1200, Max(0, volatility - 3500)), 0, SCALE)

PlayerModel_observeTurn(pm, cfg, summary) ==
  LET turnMs   == clamp(Field(summary, "turnMs", cfg.turnTimeTargetMs), 200, 60000)
      actions  == clamp(Field(summary, "actionsTaken", 0), 0, 99)
      mistakes == clamp(Field(summary, "mistakes", 0), 0, 99)
      \* hesitation proxy: (turn time per action) deviation from target
      \* a comparison with NaN is false
      perAction == IF actions # NaN /\ actions > 0
                     THEN (IF turnMs = NaN THEN NaN ELSE turnMs \div actions)
                     ELSE turnMs
      hesitationRaw ==
        IF perAction = NaN THEN NaN
        ELSE clamp(((perAction - (cfg.turnTimeTargetMs \div cfg.actionsPerTurnTarget)) * SCALE)
                     \div 2000,
                   -SCALE, SCALE)
      \* error rate proxy
      errRate == IF actions # NaN /\ actions > 0
                   THEN (IF mistakes = NaN THEN NaN ELSE Div(mistakes, actions))
                 ELSE IF mistakes # NaN /\ mistakes > 0 THEN SCALE ELSE 0
      \* volatility
      abs(zs) == IF zs = NaN THEN NaN ELSE Abs(zs)
      z(stats) == abs(RunningStats_zScore(stats, turnMs))
      third(v) == IF v = NaN THEN NaN ELSE v \div 3
      \* fatigue: sustained slowdowns + streak pressure
      slow(tE) ==
        IF tE = NaN THEN NaN
        ELSE clamp(Div(tE - cfg.turnTimeTargetMs, cfg.turnTimeTargetMs), -5000, 15000)
      fatigueLift(tE, vol) == FatigueLift(slow(tE), vol)
      update(stats, tEma, vol) ==
        [pm EXCEPT
           !.turns         = pm.turns + 1,
           !.turnTimeStats = stats,
           !.turnTimeEma   = tEma,
           !.hesitationEma = EMA_push(pm.hesitationEma, hesitationRaw),
           !.errorRateEma  = EMA_push(pm.errorRateEma, clamp(errRate, 0, SCALE)),
           !.volatility    = vol,
           !.fatigue       = EMA_push(pm.fatigue, fatigueLift(tEma.value, vol.value)),
           !.lastTurnMs    = turnMs,
           !.lastMistakes  = mistakes,
           !.lastActions   = actions]
      pushed(stats) ==
        update(stats, EMA_push(pm.turnTimeEma, turnMs),
               EMA_push(pm.volatility, clamp(third(z(stats)), 0, SCALE)))
  IN pushed(RunningStats_push(pm.turnTimeStats, turnMs))

\* StreakAfter without the reset to +1 or -1 when the outcome changes
StreakAccumulates(streak, won) == IF won THEN streak + 1 ELSE streak - 1

\* the streak after a game (source lines 206-207)
StreakAfter(streak, won) ==
  IF won THEN (IF streak >= 0 THEN streak + 1 ELSE 1)
         ELSE (IF streak <= 0 THEN streak - 1 ELSE -1)

\* SkillAfter with the result kept inside [0, 1] only
SkillAfterWide(skill, skillVar, reward, close, comeback) ==
  LET lr == clamp(800 + Mul(skillVar, 1800), 600, 2200)
  IN clamp(skill + Mul(Mul(Mul(lr, reward - clamp(skill, 500, 9500)),
                           SCALE - 3500 * close), SCALE + 2000 * comeback),
           0, SCALE)

\* SkillAfter with a close game dampening the step to nothing
SkillAfterCloseIgnored(skill, skillVar, reward, close, comeback) ==
  LET lr == clamp(800 + Mul(skillVar, 1800), 600, 2200)
  IN clamp(skill + Mul(Mul(Mul(lr, reward - clamp(skill, 500, 9500)),
                           SCALE - SCALE * close), SCALE + 2000 * comeback),
           200, 9800)

\* the skill after a game (source lines 210-225)
SkillAfter(skill, skillVar, reward, close, comeback) ==
  LET expected      == clamp(skill, 500, 9500)
      err           == reward - expected
      lr            == clamp(800 + Mul(skillVar, 1800), 600, 2200)
      closeDampen   == SCALE - 3500 * close
      comebackBoost == SCALE + 2000 * comeback
  IN clamp(skill + Mul(Mul(Mul(lr, err), closeDampen), comebackBoost), 200, 9800)

\* the uncertainty after a game (source lines 228-230); games is the count
\* already incremented
SkillVarAfter(skillVar, games, volatility) ==
  LET shrink  == 9600 - Mul(500, Min(SCALE, (games * SCALE) \div 20))
      inflate == SCALE + Mul(1000, Max(0, volatility - 3000))
  IN clamp(Mul(Mul(skillVar, shrink), inflate), 500, 3500)

PlayerModel_observeGame(pm, cfg, result) ==
  LET Bool01(b) == IF b THEN 1 ELSE 0
  IN
  LET games    == pm.games + 1
      won      == Field(result, "playerWon", FALSE)
      reward   == IF won THEN SCALE ELSE 0
      close    == Bool01(Field(result, "closeGame", FALSE))
      comeback == Bool01(Field(result, "comeback", FALSE))
      \* engagement proxy update
      tempo    == clamp(Div(pm.turnTimeEma.value, cfg.turnTimeTargetMs), 4000, 18000)
      errScore == SCALE - Mul(Abs(pm.errorRateEma.value - cfg.errorRateTarget), 12000)
      fatiguePenalty == Mul(5500, pm.fatigue.value)
      engagement(tempoScore, wrScore) ==
        clamp(Mul(4500, tempoScore) + Mul(3500, errScore) + Mul(3500, wrScore)
                - fatiguePenalty, 0, SCALE)
      \* flow is a specific challenge-skill match proxy
      flow(tempoScore, wrScore) ==
        clamp(Mul(3000, wrScore) + Mul(2500, tempoScore)
                + Mul(2500, SCALE - Abs(pm.hesitationEma.value))
                + 2000 * close - Mul(3500, pm.fatigue.value), 0, SCALE)
      update(wrEma, skill, tempoScore, wrScore) ==
        [pm EXCEPT
           !.games         = games,
           !.winRateEma    = wrEma,
           !.streak        = StreakAfter(pm.streak, won),
           !.skill         = skill,
           !.skillVar      = SkillVarAfter(pm.skillVar, games, pm.volatility.value),
           !.skillEma      = EMA_push(pm.skillEma, skill),
           !.engagementEma = EMA_push(pm.engagementEma, engagement(tempoScore, wrScore)),
           !.flowEma       = EMA_push(pm.flowEma, flow(tempoScore, wrScore))]
      scored(wrEma) ==
        update(wrEma,
               SkillAfter(pm.skill, pm.skillVar, reward, close, comeback),
               SCALE - Mul(Abs(tempo - SCALE), 7500),
               SCALE - Mul(Abs(wrEma.value - cfg.targetWinRate), 16000))
  IN scored(EMA_push(pm.winRateEma, reward))

PlayerModel_snapshot(pm) ==
  [skill        |-> pm.skill,
   skillTrend   |-> pm.skillEma.value,
   skillVar     |-> pm.skillVar,
   winRateEma   |-> pm.winRateEma.value,
   errorRateEma |-> pm.errorRateEma.value,
   turnTimeEma  |-> pm.turnTimeEma.value,
   hesitation   |-> pm.hesitationEma.value,
   volatility   |-> pm.volatility.value,
   fatigue      |-> pm.fatigue.value,
   engagement   |-> pm.engagementEma.value,
   flow         |-> pm.flowEma.value,
   streak       |-> pm.streak,
   games        |-> pm.games,
   turns        |-> pm.turns]

(***************************************************************************)
(* class BeatScheduler.  BeatOrder is the insertion order of the arms Map, *)
(* which is the order its entries() are iterated in.                       *)
(***************************************************************************)
BeatOrder == <<"recovery", "training", "challenge", "novelty">>
Beats == {BeatOrder[i] : i \in 1..Len(BeatOrder)}

BeatScheduler ==
  [arms      |-> [name \in Beats |-> BetaBanditArm(name)],
   lastBeat  |-> "training",
   cooldowns |-> [name \in Beats |-> 0]]

tickCooldowns(cooldowns) ==
  [k \in DOMAIN cooldowns |-> Max(0, cooldowns[k] - 1)]

\* the heuristic bias of chooseBeat (source lines 319-339)
BeatBias(playerSnap, cfg) ==
  LET engagement == playerSnap.engagement
      err        == playerSnap.errorRateEma
      tempo      == Div(playerSnap.turnTimeEma, cfg.turnTimeTargetMs)
      bored       == engagement < 5200 /\ err < 1800 /\ tempo < 9500
      overwhelmed == engagement < 5200 /\ err > 3000
      winning     == playerSnap.winRateEma > cfg.targetWinRate + 800
      losing      == playerSnap.winRateEma < cfg.targetWinRate - 800
  IN [recovery  |-> IF overwhelmed THEN 1200 ELSE 0,
      training  |-> (IF overwhelmed THEN 1600 ELSE 0) + (IF losing THEN 1800 ELSE 0),
      challenge |-> IF winning THEN 1800 ELSE 0,
      novelty   |-> IF bored THEN 2000 ELSE 0]

\* Thompson sample each arm + bias, in Map order from position i on
RECURSIVE SampleArms(_, _, _, _, _)
SampleArms(arms, cooldowns, bias, a, i) ==
      \* const cdPenalty = (name) => (this.cooldowns[name] > 0 ? 0.12 : 0);
  LET cdPenalty(cooldowns0, name0) == IF cooldowns0[name0] > 0 THEN 1200 ELSE 0
  IN
  IF i > Len(BeatOrder) THEN [samples |-> <<>>, a |-> a]
  ELSE LET name == BeatOrder[i]
           join(s, rest) ==
             [samples |-> <<[name    |-> name,
                             sample  |-> s.v,
                             penalty |-> cdPenalty(cooldowns, name),
                             score   |-> s.v + bias[name] - cdPenalty(cooldowns, name)]>>
                          \o rest.samples,
              a |-> rest.a]
           next(s) == join(s, SampleArms(arms, cooldowns, bias, s.a, i + 1))
       IN next(BetaBanditArm_sample(arms[name], a))

RECURSIVE SortDesc(_, _)
SortDesc(sorted, rest) ==
      \* samples.sort((a, b) => b.score - a.score): a stable sort, descending
  LET RECURSIVE InsertDesc(_, _)
      InsertDesc(sorted0, e) ==
        IF sorted0 = <<>> THEN <<e>>
        ELSE IF e.score > Head(sorted0).score THEN <<e>> \o sorted0
        ELSE <<Head(sorted0)>> \o InsertDesc(Tail(sorted0), e)
  IN
  IF rest = <<>> THEN sorted
  ELSE SortDesc(InsertDesc(sorted, Head(rest)), Tail(rest))

\* FatigueHigh with the threshold FlowDirector.observeTurn uses
FatigueHighLate(playerSnap) == playerSnap.fatigue # NaN /\ playerSnap.fatigue > 7000

\* if (fatigue > 0.62): the hard rule
FatigueHigh(playerSnap) == playerSnap.fatigue # NaN /\ playerSnap.fatigue > 6200

\* chooseBeat(playerSnap): the scheduler and RNG state after the call, the
\* beat returned, and the scored samples it ranked (none on the hard rule)
BeatScheduler_chooseBeat(bs, cfg, a, playerSnap) ==
  LET cooldowns == tickCooldowns(bs.cooldowns)
      pick(drawn, best) ==
        [bs |-> [bs EXCEPT !.cooldowns = [cooldowns EXCEPT ![best] = 1],
                           !.lastBeat = best],
         a |-> drawn.a, beat |-> best, samples |-> drawn.samples]
      rank(drawn) == pick(drawn, SortDesc(<<>>, drawn.samples)[1].name)
  IN IF FatigueHigh(playerSnap)
       THEN [bs |-> [bs EXCEPT !.cooldowns = [cooldowns EXCEPT !["recovery"] = 1],
                               !.lastBeat = "recovery"],
             a |-> a, beat |-> "recovery", samples |-> <<>>]
       ELSE rank(SampleArms(bs.arms, cooldowns, BeatBias(playerSnap, cfg), a, 1))

BeatScheduler_learn(bs, beat, improvement) ==
  IF beat \notin DOMAIN bs.arms THEN bs
  ELSE [bs EXCEPT !.arms[beat] = BetaBanditArm_update(bs.arms[beat], improvement, 1)]

BeatScheduler_snapshot(bs) ==
  [lastBeat |-> bs.lastBeat,
   arms |-> [k \in DOMAIN bs.arms |->
               [mean |-> BetaBanditArm_mean(bs.arms[k]), a |-> bs.arms[k].a, b |-> bs.arms[k].b]]]

(***************************************************************************)
(* class FlowController.  Pacing values are in hundredths of a millisecond *)
(* (650 ms is 65000).                                                      *)
(***************************************************************************)
FlowController(cfg) ==
  [bias          |-> 0,
   difficultyEma |-> EMA(1500, 5000),
   pacingEma     |-> EMA(1200, cfg.botDelayMs * 100),
   assistEma     |-> EMA(1500, 5000),
   lastFlow      |-> 7000,
   lastEng       |-> 7000]

\* the difficulty before smoothing (source lines 408-427)
RawDifficulty(playerSnap, beat, wrGap, fatigue, err, hes, bias) ==
  LET \* base difficulty follows skill trend
      trend == clamp(playerSnap.skillTrend, 1000, 9000)
      \* if player winning too much -> harder; losing too much -> easier
      winRate(base) == clamp(base + Mul(wrGap, 5500), 1000, 9500)
      \* fatigue & high errors -> ease off difficulty
      easeOff(base) ==
        clamp(base - Mul(3500, fatigue) - Mul(3000, Max(0, err - 2500)), 1000, 9500)
      \* hesitation indicates cognitive load; ease slightly
      load(base) == clamp(base - Mul(1200, Max(0, hes)), 1000, 9500)
      \* beat modulation (safe rhythm)
      recovery(diff)  == IF beat = "recovery" THEN clamp(diff - 1600, 1000, 9000) ELSE diff
      training(diff)  == IF beat = "training" THEN clamp(diff - 800, 1000, 9300) ELSE diff
      challenge(diff) == IF beat = "challenge" THEN clamp(diff + 1000, 1000, 9500) ELSE diff
      novelty(diff)   == IF beat = "novelty" THEN clamp(diff + 400, 1000, 9500) ELSE diff
  IN \* learnable bias (nudges long-run toward target win rate)
     clamp(novelty(challenge(training(recovery(load(easeOff(winRate(trend))))))) + bias,
           1000, 9500)

\* RawPacing without the clamp to [260, 1100] ms
RawPacingUnclamped(cfg, beat, wrGap, fatigue) ==
  cfg.botDelayMs * 100 + Mul(25000, fatigue) - Mul(12000, Max(0, wrGap))
    + (IF beat = "recovery" THEN 12000 ELSE 0) - (IF beat = "challenge" THEN 7000 ELSE 0)

\* the pacing before smoothing (source lines 434-438)
RawPacing(cfg, beat, wrGap, fatigue) ==
  LET recovery(pacing)  == IF beat = "recovery" THEN pacing + 12000 ELSE pacing
      challenge(pacing) == IF beat = "challenge" THEN pacing - 7000 ELSE pacing
  IN clamp(challenge(recovery(cfg.botDelayMs * 100 + Mul(25000, fatigue)
                                - Mul(12000, Max(0, wrGap)))),
           26000, 110000)

\* RawAssist without the clamps that follow the beat's nudge
RawAssistUnclamped(playerSnap, beat, fatigue, err) ==
  clamp(4500 + Mul(3500, fatigue) + Mul(4500, Max(0, err - 2000))
          - Mul(3000, Max(0, playerSnap.skillTrend - 6500)), 1000, 9500)
    + (IF beat = "training" THEN 800 ELSE 0) - (IF beat = "challenge" THEN 600 ELSE 0)

\* RawAssist with fatigue taking assist away instead of adding it
RawAssistEasing(playerSnap, beat, fatigue, err) ==
  LET training(assist)  == IF beat = "training" THEN clamp(assist + 800, 1000, 9800) ELSE assist
      challenge(assist) == IF beat = "challenge" THEN clamp(assist - 600, 1000, 9500) ELSE assist
  IN challenge(training(clamp(4500 - Mul(3500, fatigue) + Mul(4500, Max(0, err - 2000))
                                - Mul(3000, Max(0, playerSnap.skillTrend - 6500)),
                              1000, 9500)))

\* the assist before smoothing (source lines 441-446)
RawAssist(playerSnap, beat, fatigue, err) ==
  LET training(assist)  == IF beat = "training" THEN clamp(assist + 800, 1000, 9800) ELSE assist
      challenge(assist) == IF beat = "challenge" THEN clamp(assist - 600, 1000, 9500) ELSE assist
  IN challenge(training(clamp(4500 + Mul(3500, fatigue) + Mul(4500, Max(0, err - 2000))
                                - Mul(3000, Max(0, playerSnap.skillTrend - 6500)),
                              1000, 9500)))

\* AssistModeOf without the Low level
AssistModeOfThreeLevels(assist) ==
  IF assist >= 7800 THEN "High" ELSE IF assist >= 5500 THEN "Auto" ELSE "Off"

\* the discrete assist mode (source lines 454-457)
AssistModeOf(assist) ==
  IF assist >= 7800 THEN "High"
  ELSE IF assist >= 5500 THEN "Auto"
  ELSE IF assist >= 3200 THEN "Low" ELSE "Off"

\* BiasAfter without the bound of 0.18 on either side
BiasAfterUnbounded(bias, wrGap) == bias + clamp(Mul(wrGap, 300), -200, 200)

\* the bias after a compute call (source lines 465-466)
BiasAfter(bias, wrGap) ==
  LET drift == clamp(Mul(wrGap, 300), -200, 200)
  IN clamp(bias + drift, -1800, 1800)

\* PlanOf with the depth read off the difficulty the Plan carries
PlanDepthOfSmoothed(diff, depth, randomness, pacing, assist, beat) ==
  [difficulty      |-> diff,
   depth           |-> IF diff >= 6200 THEN 2 ELSE 1,
   randomness      |-> randomness,
   pacingMs        |-> pacing,
   assist          |-> assist,
   assistMode      |-> IF assist >= 7800 THEN "High"
                       ELSE IF assist >= 5500 THEN "Auto"
                       ELSE IF assist >= 3200 THEN "Low" ELSE "Off",
   showHighlights  |-> assist >= 3200,
   showAttackHints |-> assist >= 5500,
   beat            |-> beat]

\* the Plan object compute returns (source lines 468-478); depth and
\* randomness come from the difficulty as it was when they were computed
PlanOf(diff, depth, randomness, pacing, assist, beat) ==
  [difficulty      |-> diff,
   depth           |-> depth,
   randomness      |-> randomness,
   pacingMs        |-> pacing,
   assist          |-> assist,
   assistMode      |-> AssistModeOf(assist),
   showHighlights  |-> assist >= 3200,
   showAttackHints |-> assist >= 5500,
   beat            |-> beat]

\* compute(playerSnap, beat): the controller after the call, the Plan
\* returned, and the three outputs as they were before smoothing
FlowController_compute(fc, cfg, playerSnap, beat) ==
      \* const randomness = clamp(0.60 - diff * 0.52, 0.10, 0.60);
  LET RandomnessOf(diff0) == clamp(6000 - Mul(diff0, 5200), 1000, 6000)
  IN
      \* const depth = diff >= 0.62 ? 2 : 1;
  LET DepthOf(diff0) == IF diff0 >= 6200 THEN 2 ELSE 1
  IN
  LET targetWR == cfg.targetWinRate
      wrGap    == clamp(playerSnap.winRateEma - targetWR, -5000, 5000)
      fatigue  == clamp(playerSnap.fatigue, 0, SCALE)
      err      == clamp(playerSnap.errorRateEma, 0, SCALE)
      hes      == clamp(playerSnap.hesitation, -SCALE, SCALE)
      result(diff, pacing, assist, dEma, pEma, aEma) ==
        [fc |-> [fc EXCEPT !.difficultyEma = dEma,
                           !.pacingEma = pEma,
                           !.assistEma = aEma,
                           !.bias = BiasAfter(fc.bias, wrGap)],
         plan |-> PlanOf(dEma.value, DepthOf(diff), RandomnessOf(diff),
                         pEma.value, aEma.value, beat),
         raw |-> [diff |-> diff, pacing |-> pacing, assist |-> assist]]
      \* smooth outputs
      smooth(diff, pacing, assist) ==
        result(diff, pacing, assist,
               EMA_push(fc.difficultyEma, diff),
               EMA_push(fc.pacingEma, pacing),
               EMA_push(fc.assistEma, assist))
  IN smooth(RawDifficulty(playerSnap, beat, wrGap, fatigue, err, hes, fc.bias),
            RawPacing(cfg, beat, wrGap, fatigue),
            RawAssist(playerSnap, beat, fatigue, err))

\* noteOutcome(playerSnap): did flow/engagement improve since last?
FlowController_noteOutcome(fc, playerSnap) ==
  [fc |-> [fc EXCEPT !.lastFlow = playerSnap.flow, !.lastEng = playerSnap.engagement],
   improved |-> (playerSnap.flow + playerSnap.engagement) > (fc.lastFlow + fc.lastEng) + 200]

(***************************************************************************)
(* class FlowDirector.  The RNG closure it creates (and hands to its       *)
(* scheduler and controller) is kept beside the director, in rng.  The     *)
(* session's startedAt timestamp is not modelled.                          *)
(***************************************************************************)
\* this.cfg (source lines 498-508)
DirectorCfg(options) ==
  [targetWinRate        |-> Field(options, "targetWinRate", 5800),
   errorRateTarget      |-> Field(options, "errorRateTarget", 2200),
   turnTimeTargetMs     |-> Field(options, "turnTimeTargetMs", 7000),
   actionsPerTurnTarget |-> Field(options, "actionsPerTurnTarget", 2),
   botDelayMs           |-> Field(options, "botDelayMs", 650),
   skillInitial         |-> Field(options, "skillInitial", 5000),
   skillVarInitial      |-> Field(options, "skillVarInitial", 2200)]

\* SeedOf with options.seed ignored
SeedFromClock(options, nowSeed) == nowSeed

\* const seed = options.seed ?? nowSeed;
SeedOf(options, nowSeed) == Field(options, "seed", nowSeed)

\* new FlowDirector(options): the director and the state of its RNG
FlowDirector(options, nowSeed) ==
  LET build(cfg, player, first) ==
        [a |-> mulberry32(SeedOf(options, nowSeed)),
         d |-> [cfg         |-> cfg,
                player      |-> player,
                beats       |-> BeatScheduler,
                flow        |-> first.fc,
                currentBeat |-> "training",
                currentPlan |-> first.plan,
                session     |-> [turns |-> 0, games |-> 0]],
         raw |-> first.raw]
      plan(cfg, player) ==
        build(cfg, player,
              FlowController_compute(FlowController(cfg), cfg,
                                     PlayerModel_snapshot(player), "training"))
      model(cfg) == plan(cfg, PlayerModel(cfg))
  IN model(DirectorCfg(options))

FlowDirector_observeTurn(d, turnSummary) ==
  LET refresh(player, beat, c) ==
        [d |-> [d EXCEPT !.player = player,
                         !.session.turns = d.session.turns + 1,
                         !.currentBeat = beat,
                         !.flow = c.fc,
                         !.currentPlan = c.plan],
         raw |-> c.raw]
      compute(player, snap, beat) ==
        refresh(player, beat, FlowController_compute(d.flow, d.cfg, snap, beat))
      \* beat stays stable within a match unless fatigue spikes
      stable(player, snap) ==
        compute(player, snap, IF snap.fatigue # NaN /\ snap.fatigue > 7000 THEN "recovery" ELSE d.currentBeat)
      observed(player) == stable(player, PlayerModel_snapshot(player))
  IN observed(PlayerModel_observeTurn(d.player, d.cfg, turnSummary))

\* LearnedBeat with the beat chooseBeat has just returned
LearnsNextBeat(currentBeat, nextBeat) == nextBeat

\* the beat whose arm observeGame feeds: this.beats.learn(this.currentBeat, improved)
LearnedBeat(currentBeat, nextBeat) == currentBeat

\* observeGame(gameResult): the director and RNG state after the call, the
\* Plan returned, and what the call did on the way
FlowDirector_observeGame(d, a, gameResult) ==
  LET result(player, chosen, noted, c) ==
        [d |-> [d EXCEPT !.player = player,
                         !.session.games = d.session.games + 1,
                         !.beats = BeatScheduler_learn(chosen.bs,
                                     LearnedBeat(d.currentBeat, chosen.beat), noted.improved),
                         !.flow = c.fc,
                         !.currentBeat = chosen.beat,
                         !.currentPlan = c.plan],
         a |-> chosen.a,
         plan |-> c.plan,
         raw |-> c.raw,
         nextBeat |-> chosen.beat,
         improved |-> noted.improved,
         samples |-> chosen.samples]
      compute(player, snap, chosen, noted) ==
        result(player, chosen, noted,
               FlowController_compute(noted.fc, d.cfg, snap, chosen.beat))
      \* choose next beat
      choose(player, snap) ==
        compute(player, snap,
                BeatScheduler_chooseBeat(d.beats, d.cfg, a, snap),
                FlowController_noteOutcome(d.flow, snap))
      observed(player) == choose(player, PlayerModel_snapshot(player))
  IN observed(PlayerModel_observeGame(d.player, d.cfg, gameResult))

\* { ...plan, snapshot: snap }
WithSnapshot(plan, snap) ==
  [k \in DOMAIN plan \cup {"snapshot"} |-> IF k = "snapshot" THEN snap ELSE plan[k]]

\* FlowDirector_recommend computing the plan afresh, as observeTurn does
RecommendRecomputes(d) ==
  LET refresh(snap, c) ==
        [d |-> [d EXCEPT !.flow = c.fc, !.currentPlan = c.plan],
         ret |-> WithSnapshot(c.plan, snap)]
      compute(snap) ==
        refresh(snap, FlowController_compute(d.flow, d.cfg, snap, d.currentBeat))
  IN compute(PlayerModel_snapshot(d.player))

\* recommend(): the director after the call and the object returned, the
\* current plan with the player snapshot attached
FlowDirector_recommend(d) ==
  [d |-> d, ret |-> WithSnapshot(d.currentPlan, PlayerModel_snapshot(d.player))]

\* snapshot(): the director after the call and the diagnostic view returned
FlowDirector_snapshot(d) ==
  [d |-> d,
   ret |-> [cfg     |-> d.cfg,
            player  |-> PlayerModel_snapshot(d.player),
            beat    |-> BeatScheduler_snapshot(d.beats),
            plan    |-> d.currentPlan,
            session |-> d.session]]

(***************************************************************************)
(* The match (app.js of Beacon Tactics, src/unnamed/part_003): the rules   *)
(* and the opponent's action selector.  A unit is a record with id, side,  *)
(* type, r, c, hp and shield; allUnits is an array of units; an action is  *)
(* a record with type, unitId and to, an attack also with targetId and     *)
(* ranged.  null, and the undefined that find returns, are <<>>.  Scores   *)
(* are fixed-point numbers.                                                *)
(***************************************************************************)
SIZE == 7
SHIELD_PER_FORTIFY == 1
SNIPER_RANGE == 2

BEACONS ==
  <<[r |-> 1, c |-> 1], [r |-> 1, c |-> 5], [r |-> 3, c |-> 3],
    [r |-> 5, c |-> 1], [r |-> 5, c |-> 5]>>

\* arrays.flat(): the arrays of an array, one after the other
RECURSIVE Flatten(_)
Flatten(arrays) ==
  IF arrays = <<>> THEN <<>> ELSE Head(arrays) \o Flatten(Tail(arrays))

\* allUnits.find((u) => u.r === r && u.c === c)
unitOn(allUnits, r, c) ==
  LET first(hits) == IF hits = <<>> THEN <<>> ELSE hits[1]
  IN first(SelectSeq(allUnits, LAMBDA u : u.r = r /\ u.c = c))

\* the place in allUnits of allUnits.find((x) => x.id === id), 0 if none
IndexOf(allUnits, id) ==
  IF \E k \in DOMAIN allUnits : allUnits[k].id = id
    THEN CHOOSE k \in DOMAIN allUnits :
           allUnits[k].id = id /\ \A j \in 1..(k - 1) : allUnits[j].id # id
    ELSE 0

canLineAttack(from, to, allUnits) ==
  LET dist == Abs(from.r - to.r) + Abs(from.c - to.c)
      dr == IF to.r > from.r THEN 1 ELSE IF to.r < from.r THEN -1 ELSE 0
      dc == IF to.c > from.c THEN 1 ELSE IF to.c < from.c THEN -1 ELSE 0
  IN /\ (from.r = to.r \/ from.c = to.c)
     /\ dist >= 1
     /\ dist <= SNIPER_RANGE
     /\ \A k \in 1..(dist - 1) :
          unitOn(allUnits, from.r + k * dr, from.c + k * dc) = <<>>

actionsFor(unit, allUnits) ==
  LET neighbors4(r0, c0) ==
        SelectSeq(<<[r |-> r0 - 1, c |-> c0], [r |-> r0 + 1, c |-> c0],
                    [r |-> r0, c |-> c0 - 1], [r |-> r0, c |-> c0 + 1]>>,
                  LAMBDA p : p.r >= 0 /\ p.r < SIZE /\ p.c >= 0 /\ p.c < SIZE)
  IN
  LET step(p, occ) ==
        IF occ = <<>>
          THEN <<[type |-> "move", unitId |-> unit.id, to |-> p]>>
        ELSE IF occ.side # unit.side
          THEN <<[type |-> "attack", unitId |-> unit.id, targetId |-> occ.id,
                  to |-> p, ranged |-> FALSE]>>
          ELSE <<>>
      \* adjacent move/attack
      adjacent(ps) ==
        Flatten([k \in DOMAIN ps |-> step(ps[k], unitOn(allUnits, ps[k].r, ps[k].c))])
      \* sniper line attack
      shot(e) ==
        IF e.side # unit.side /\ canLineAttack(unit, e, allUnits)
          THEN <<[type |-> "attack", unitId |-> unit.id, targetId |-> e.id,
                  to |-> [r |-> e.r, c |-> e.c], ranged |-> TRUE]>>
          ELSE <<>>
  IN \* Fortify: always available
     <<[type |-> "fortify", unitId |-> unit.id, to |-> [r |-> unit.r, c |-> unit.c]]>>
       \o adjacent(neighbors4(unit.r, unit.c))
       \o (IF unit.type = "sniper"
             THEN Flatten([k \in DOMAIN allUnits |-> shot(allUnits[k])])
             ELSE <<>>)

applyAction(action, allUnits) ==
  LET hit(t) ==
        IF t = 0 THEN allUnits
        ELSE IF allUnits[t].shield > 0 THEN [allUnits EXCEPT ![t].shield = @ - 1]
        ELSE IF allUnits[t].hp - 1 <= 0
          THEN SelectSeq(allUnits, LAMBDA x : x.id # allUnits[t].id)
          ELSE [allUnits EXCEPT ![t].hp = @ - 1]
      act(u) ==
        IF u = 0 THEN allUnits
        ELSE IF action.type = "fortify"
          THEN [allUnits EXCEPT ![u].shield = @ + SHIELD_PER_FORTIFY]
        ELSE IF action.type = "move"
          THEN [allUnits EXCEPT ![u].r = action.to.r, ![u].c = action.to.c]
        ELSE IF action.type = "attack" THEN hit(IndexOf(allUnits, action.targetId))
        ELSE allUnits
  IN act(IndexOf(allUnits, action.unitId))

\* bot-centric score (higher is better for bot)
evalState(allUnits, pB, bB) ==
      \* reduce((s, x) => s + x, 0)
  LET RECURSIVE SumSeq(_)
      SumSeq(xs) == IF xs = <<>> THEN 0 ELSE Head(xs) + SumSeq(Tail(xs))
  IN
  LET pow(u) == u.hp * SCALE + u.shield * 6000 + (IF u.type = "sniper" THEN 3500 ELSE 0)
      power(side) ==
        SumSeq([k \in DOMAIN allUnits |->
                  IF allUnits[k].side = side THEN pow(allUnits[k]) ELSE 0])
      \* beacon occupancy bonus
      bonus(o) == IF o = <<>> THEN 0 ELSE IF o.side = "bot" THEN 5500 ELSE -5500
      occ == SumSeq([k \in DOMAIN BEACONS |->
                       bonus(unitOn(allUnits, BEACONS[k].r, BEACONS[k].c))])
      \* position toward beacons
      nearest(ds) == CHOOSE d \in ds : \A e \in ds : d <= e
      distToBeacon(u) ==
        nearest({999} \cup {Abs(u.r - BEACONS[k].r) + Abs(u.c - BEACONS[k].c) :
                               k \in DOMAIN BEACONS})
      pos(side) ==
        SumSeq([k \in DOMAIN allUnits |->
                  IF allUnits[k].side = side
                    THEN (7 - distToBeacon(allUnits[k])) * 1000 ELSE 0])
  IN (bB - pB) * 22000 + Mul(power("bot") - power("player"), 13500) + occ
       + (pos("bot") - pos("player"))

\* actionsForSide listing the actions of every unit, whatever its side
actionsForAnySide(side, allUnits) ==
  Flatten([k \in DOMAIN allUnits |-> actionsFor(allUnits[k], allUnits)])

actionsForSide(side, allUnits) ==
  Flatten([k \in DOMAIN allUnits |->
             IF allUnits[k].side = side THEN actionsFor(allUnits[k], allUnits) ELSE <<>>])

\* deepCloneUnits copies every unit, so applyAction works on the copies
simulate(action, allUnits) == applyAction(action, allUnits)

immediateHeuristic(action, allUnits) ==
  LET isBeacon(r, c) == \E k \in DOMAIN BEACONS : BEACONS[k].r = r /\ BEACONS[k].c = c
  IN
  LET threats(u, replies) ==
        \E k \in DOMAIN replies :
          replies[k].type = "attack" /\ replies[k].targetId = u.id
      \* good if threatened
      fortify(u) ==
        IF threats(u, actionsForSide(IF u.side = "bot" THEN "player" ELSE "bot", allUnits))
          THEN 22000 ELSE 6000
      target(t) ==
        IF t = 0 THEN 0
        ELSE (IF allUnits[t].hp + allUnits[t].shield <= 1 THEN 38000 ELSE 0)
               + (IF isBeacon(allUnits[t].r, allUnits[t].c) THEN 20000 ELSE 0)
      score(u) ==
        IF u = 0 THEN 0
        ELSE IF action.type = "fortify" THEN fortify(allUnits[u])
        ELSE IF action.type = "attack"
          THEN (IF action.ranged THEN 32000 ELSE 30000)
                 + target(IndexOf(allUnits, action.targetId))
        ELSE IF action.type = "move"
          THEN (IF isBeacon(action.to.r, action.to.c) THEN 32000 ELSE 7000)
        ELSE 0
  IN score(IndexOf(allUnits, action.unitId))

\* a future that takes no account of the player's reply
futureUnanswered(afterBot, pB, bB, depth) == evalState(afterBot, pB, bB)

\* the future of pickBotAction's scoring: the value of the units after the
\* bot's action, lowered to what the player's best reply leaves of it when
\* the depth is 2 or more and the player has a reply
future(afterBot, pB, bB, depth) ==
  LET \* player chooses reply that minimizes bot eval
      least(botAfter, scores) ==
        botAfter - Max(0, botAfter - (CHOOSE m \in scores : \A e \in scores : m <= e))
      replied(replies) ==
        IF replies # <<>>
          THEN least(evalState(afterBot, pB, bB),
                     {evalState(simulate(replies[k], afterBot), pB, bB) :
                        k \in DOMAIN replies})
          ELSE evalState(afterBot, pB, bB)
  IN IF depth >= 2
       THEN replied(actionsForSide("player", afterBot))
       ELSE evalState(afterBot, pB, bB)

\* pickBotAction(allUnits, pB, bB, rec): the scored actions after the sort,
\* and what it returns for each way the draws of Math.random can fall
pickBotAction(allUnits, pB, bB, rec) ==
      \* what Math.random can pick in the shuffle of n elements
  LET DrawsFor(n) == {draws \in [2..n -> 1..n] : \A i \in 2..n : draws[i] <= i}
  IN
      \* the shuffle of pickBotAction: for i from the last place down to the
      \* second, swap place i with place draws[i], which Math.random picked
      \* among the places 1..i
  LET RECURSIVE Shuffle(_, _, _)
      Shuffle(slice0, draws0, i) ==
        IF i < 2 THEN slice0
        ELSE Shuffle([slice0 EXCEPT ![i] = slice0[draws0[i]], ![draws0[i]] = slice0[i]], draws0, i - 1)
  IN
  LET scored(a) ==
        [action |-> a,
         score |-> immediateHeuristic(a, allUnits)
                     + Mul(7500, future(simulate(a, allUnits), pB, bB, rec.depth))]
      \* adaptive randomness: sample among top window
      margin == clamp(8000 + Mul(rec.randomness, 16000), 7000, 20000)
      maxPick == Max(2, (2 * SCALE + rec.randomness * 6 + HALF) \div SCALE)
      shuffled(slice) ==
        [draws \in DrawsFor(Len(slice)) |-> Shuffle(slice, draws, Len(slice))[1].action]
      cut(pool) == shuffled(SubSeq(pool, 1, Min(maxPick, Len(pool))))
      window(sorted) ==
        [scored |-> sorted,
         returns |-> cut(SelectSeq(sorted, LAMBDA x : x.score >= sorted[1].score - margin))]
      pick(acts) ==
        IF Len(acts) = 0 THEN [scored |-> <<>>, returns |-> [draws \in DrawsFor(0) |-> <<>>]]
        ELSE window(SortDesc(<<>>, [k \in DOMAIN acts |-> scored(acts[k])]))
  IN pick(actionsForSide("bot", allUnits))

(***************************************************************************)
(* State.                                                                  *)
(*   director   the FlowDirector instances, by instance number             *)
(*   rng        the mulberry32 closures, by the object that holds them     *)
(*   last       what the latest call on each object did and returned       *)
(*   outcomes   playerWon of every observeGame call so far, oldest first   *)
(*   scheduler  a BeatScheduler driven on its own (<<>> while there is     *)
(*              none), with the number of calls made on it                 *)
(*   controller a FlowController driven on its own, likewise; last then    *)
(*              keeps, with a compute call, the call before it (prev)      *)
(*   player     a PlayerModel driven on its own, with the payloads fed     *)
(*   ema        an EMA driven on its own, with the values pushed           *)
(*   stats      a RunningStats driven on its own, with the values pushed   *)
(*   units      the units array of a match, each unit a record             *)
(***************************************************************************)
VARIABLES director, rng, last, outcomes, scheduler, controller, player, ema,
          stats, units, match, grid, game, convo

vars == <<director, rng, last, outcomes, scheduler, controller, player, ema,
          stats, units, match, grid, game, convo>>

\* bounds of the model
MaxTurns == 2
MaxGames == 2
MaxChoices == 2
MaxLearns == 2
MaxComputes == 2

TurnSummaries ==
  {[turnMs |-> 3000, actionsTaken |-> 2, mistakes |-> 1],
   [turnMs |-> 99999, actionsTaken |-> 0, mistakes |-> 3]}
GameResults ==
  {<<>>,
   [playerWon |-> TRUE],
   [playerWon |-> TRUE, closeGame |-> TRUE, comeback |-> TRUE]}

\* the RNG closure instance i draws from: each director creates its own
RngOf(i) == i

Instances == DOMAIN director

\* before the host page has constructed anything
Init ==
  /\ director = <<>>
  /\ rng = <<>>
  /\ last = <<>>
  /\ outcomes = <<>>
  /\ scheduler = <<>>
  /\ controller = <<>>
  /\ player = <<>>
  /\ ema = <<>>
  /\ stats = <<>>
  /\ units = <<>>
  /\ match = <<>>
  /\ grid = <<>>
  /\ game = <<>>
  /\ convo = <<>>

\* new FlowDirector(options), n times with the same options; now[i] is the
\* clock-and-Math.random seed the i-th constructor computes for itself
Construct(n, options) ==
  LET NowSeeds == {1234567, 7654321}
  IN
  /\ director = <<>>
  /\ scheduler = <<>>
  /\ controller = <<>>
  /\ \E now \in [1..n -> NowSeeds] :
       LET made(r) ==
             /\ director' = [i \in 1..n |-> r[i].d]
             /\ rng' = [i \in 1..n |-> r[i].a]
             /\ last' = [i \in 1..n |->
                           [op |-> "new", plan |-> r[i].d.currentPlan, raw |-> r[i].raw]]
       IN made([i \in 1..n |-> FlowDirector(options, now[i])])
  /\ UNCHANGED <<outcomes, scheduler, controller, player, ema, stats, units, match, grid, game, convo>>

New ==
  LET OptionBags ==
        {[seed |-> 42],
         [seed |-> 7, skillInitial |-> 9790, skillVarInitial |-> 5000, botDelayMs |-> 1200],
         [seed |-> 42, skillInitial |-> 220, skillVarInitial |-> 400, botDelayMs |-> 200]}
  IN
       \E options \in OptionBags : Construct(1, options)

\* director.observeTurn(turnSummary), on every instance in turn
ObserveTurn(turnSummary) ==
  /\ director # <<>>
  /\ \A i \in Instances : director[i].session.turns < MaxTurns
  /\ LET done(r) ==
           /\ director' = [i \in Instances |-> r[i].d]
           /\ last' = [i \in Instances |->
                         [op |-> "observeTurn", plan |-> r[i].d.currentPlan,
                          raw |-> r[i].raw,
                          beatBefore |-> director[i].currentBeat]]
     IN done([i \in Instances |-> FlowDirector_observeTurn(director[i], turnSummary)])
  /\ UNCHANGED <<rng, outcomes, scheduler, controller, player, ema, stats, units, match, grid, game, convo>>

\* the calls of instances i..n one after the other, each drawing from its
\* own closure as the calls before it left it
RECURSIVE GameCalls(_, _, _, _)
GameCalls(dirs, i, rngs, gameResult) ==
  IF i \notin DOMAIN dirs THEN [out |-> <<>>, rng |-> rngs]
  ELSE LET join(r, rest) == [out |-> <<r>> \o rest.out, rng |-> rest.rng]
           next(r) ==
             join(r, GameCalls(dirs, i + 1, [rngs EXCEPT ![RngOf(i)] = r.a], gameResult))
       IN next(FlowDirector_observeGame(dirs[i], rngs[RngOf(i)], gameResult))

\* director.observeGame(gameResult), on every instance in turn
ObserveGame(gameResult) ==
  /\ director # <<>>
  /\ \A i \in Instances : director[i].session.games < MaxGames
  /\ LET done(r) ==
           /\ director' = [i \in Instances |-> r.out[i].d]
           /\ rng' = r.rng
           /\ last' = [i \in Instances |->
                         [op |-> "observeGame",
                          plan |-> r.out[i].plan,
                          raw |-> r.out[i].raw,
                          nextBeat |-> r.out[i].nextBeat,
                          improved |-> r.out[i].improved,
                          samples |-> r.out[i].samples,
                          beatBefore |-> director[i].currentBeat,
                          armsBefore |-> director[i].beats.arms,
                          cooldownsBefore |-> director[i].beats.cooldowns,
                          rngBefore |-> rng[RngOf(i)]]]
     IN done(GameCalls(director, 1, rng, gameResult))
  /\ outcomes' = Append(outcomes, Field(gameResult, "playerWon", FALSE))
  /\ UNCHANGED <<scheduler, controller, player, ema, stats, units, match, grid, game, convo>>

Spec ==
  Init /\ [][\/ New
             \/ \E turnSummary \in TurnSummaries : ObserveTurn(turnSummary)
             \/ \E gameResult \in GameResults : ObserveGame(gameResult)]_vars

(***************************************************************************)
(* Two directors constructed independently with the same options and fed   *)
(* the same observations.                                                  *)
(***************************************************************************)
NewPair ==
  LET SeededBags ==
            \* the inputs the model draws from
        LET Seeds == {42, 7}
        IN
                    {[seed |-> s] : s \in Seeds}
  IN
           \E options \in SeededBags : Construct(2, options)

SpecPair ==
  Init /\ [][\/ NewPair
             \/ \E turnSummary \in TurnSummaries : ObserveTurn(turnSummary)
             \/ \E gameResult \in GameResults : ObserveGame(gameResult)]_vars

(***************************************************************************)
(* One director with its two read operations, as the host page calls them  *)
(* between observations.  last keeps, with what a read returned, the plan  *)
(* that the latest constructor or observation call computed.               *)
(***************************************************************************)
NewDefault == Construct(1, [seed |-> 42])

\* director.recommend()
Recommend ==
  /\ director # <<>>
  /\ LET done(r) ==
           /\ director' = [i \in Instances |-> r[i].d]
           /\ last' = [i \in Instances |->
                         [op |-> "recommend", ret |-> r[i].ret, plan |-> last[i].plan]]
     IN done([i \in Instances |-> FlowDirector_recommend(director[i])])
  /\ UNCHANGED <<rng, outcomes, scheduler, controller, player, ema, stats, units, match, grid, game, convo>>

\* director.snapshot()
Snapshot ==
  /\ director # <<>>
  /\ LET done(r) ==
           /\ director' = [i \in Instances |-> r[i].d]
           /\ last' = [i \in Instances |->
                         [op |-> "snapshot", ret |-> r[i].ret, plan |-> last[i].plan]]
     IN done([i \in Instances |-> FlowDirector_snapshot(director[i])])
  /\ UNCHANGED <<rng, outcomes, scheduler, controller, player, ema, stats, units, match, grid, game, convo>>

SpecReads ==
  Init /\ [][\/ NewDefault
             \/ \E turnSummary \in TurnSummaries : ObserveTurn(turnSummary)
             \/ \E gameResult \in GameResults : ObserveGame(gameResult)
             \/ Recommend
             \/ Snapshot]_vars

(***************************************************************************)
(* A BeatScheduler driven on its own: new BeatScheduler(cfg, rng), then    *)
(* chooseBeat(playerSnap) and learn(beat, improvement) with any arguments. *)
(***************************************************************************)
SchedulerCfg == DirectorCfg(<<>>)

\* snapshots handed to chooseBeat: a fresh player's, with the fields the
\* scheduler reads set to values on both sides of each of its thresholds
FreshSnapshot == PlayerModel_snapshot(PlayerModel(SchedulerCfg))

NewScheduler ==
  /\ director = <<>>
  /\ scheduler = <<>>
  /\ controller = <<>>
  /\ scheduler' = [bs |-> BeatScheduler, choices |-> 0, learns |-> 0]
  /\ rng' = <<mulberry32(42)>>
  /\ last' = <<[op |-> "new"]>>
  /\ UNCHANGED <<director, outcomes, controller, player, ema, stats, units, match, grid, game, convo>>

\* scheduler.chooseBeat(playerSnap)
ChooseBeat(playerSnap) ==
  /\ scheduler # <<>>
  /\ scheduler.choices < MaxChoices
  /\ LET done(r) ==
           /\ scheduler' = [scheduler EXCEPT !.bs = r.bs, !.choices = @ + 1]
           /\ rng' = <<r.a>>
           /\ last' = <<[op |-> "chooseBeat",
                         playerSnap |-> playerSnap,
                         beat |-> r.beat,
                         samples |-> r.samples,
                         armsBefore |-> scheduler.bs.arms,
                         cooldownsBefore |-> scheduler.bs.cooldowns,
                         rngBefore |-> rng[1]]>>
     IN done(BeatScheduler_chooseBeat(scheduler.bs, SchedulerCfg, rng[1], playerSnap))
  /\ UNCHANGED <<director, outcomes, controller, player, ema, stats, units, match, grid, game, convo>>

\* scheduler.learn(beat, improvement)
Learn(beat, improvement) ==
  /\ scheduler # <<>>
  /\ scheduler.learns < MaxLearns
  /\ scheduler' = [scheduler EXCEPT
                     !.bs = BeatScheduler_learn(scheduler.bs, beat, improvement),
                     !.learns = @ + 1]
  /\ last' = <<[op |-> "learn", beat |-> beat, improvement |-> improvement,
                armsBefore |-> scheduler.bs.arms]>>
  /\ UNCHANGED <<director, rng, outcomes, controller, player, ema, stats, units, match, grid, game, convo>>

NextBeats ==
  LET LearnCalls ==
        {[beat |-> "recovery", improvement |-> TRUE],
         [beat |-> "recovery", improvement |-> FALSE],
         [beat |-> "bonus", improvement |-> TRUE]}
  IN
  LET Snapshots ==
        {[FreshSnapshot EXCEPT !.fatigue = 6200, !.engagement = 4000, !.errorRateEma = 4000],
         [FreshSnapshot EXCEPT !.fatigue = 6201, !.engagement = 4000, !.errorRateEma = 1000],
         [FreshSnapshot EXCEPT !.fatigue = 9500, !.winRateEma = 9000]}
  IN
  \/ NewScheduler
  \/ \E playerSnap \in Snapshots : ChooseBeat(playerSnap)
  \/ \E call \in LearnCalls : Learn(call.beat, call.improvement)

SpecBeats == Init /\ [][NextBeats]_vars

(***************************************************************************)
(* A FlowController driven on its own: new FlowController(cfg, rng), then  *)
(* compute(playerSnap, beat) with any snapshot and any beat.               *)
(***************************************************************************)

NewController ==
  LET ControllerCfgs == {DirectorCfg([botDelayMs |-> ms]) : ms \in {100, 650, 3000}}
  IN
  /\ director = <<>>
  /\ scheduler = <<>>
  /\ controller = <<>>
  /\ \E cfg \in ControllerCfgs :
       controller' = [fc |-> FlowController(cfg), cfg |-> cfg, computes |-> 0]
  /\ last' = <<[op |-> "new"]>>
  /\ UNCHANGED <<director, rng, outcomes, scheduler, player, ema, stats, units, match, grid, game, convo>>

\* controller.compute(playerSnap, beat), while fewer than limit calls were made
ComputeWithin(limit, playerSnap, beat) ==
  /\ controller # <<>>
  /\ controller.computes < limit
  /\ LET done(r) ==
           /\ controller' = [controller EXCEPT !.fc = r.fc, !.computes = @ + 1]
           /\ last' = <<[op |-> "compute", playerSnap |-> playerSnap, beat |-> beat,
                         plan |-> r.plan, raw |-> r.raw,
                         prev |-> IF last[1].op = "compute"
                                    THEN [playerSnap |-> last[1].playerSnap,
                                          beat |-> last[1].beat,
                                          raw |-> last[1].raw]
                                    ELSE <<>>]>>
     IN done(FlowController_compute(controller.fc, controller.cfg, playerSnap, beat))
  /\ UNCHANGED <<director, rng, outcomes, scheduler, player, ema, stats, units, match, grid, game, convo>>

Compute(playerSnap, beat) == ComputeWithin(MaxComputes, playerSnap, beat)

NextFlow ==
  LET AnyBeats == Beats \cup {"bonus"}
  IN
      \* snapshots handed to compute: in range and far out of range on both sides
  LET AnySnapshots ==
        {FreshSnapshot,
         [FreshSnapshot EXCEPT !.skillTrend = 9000, !.winRateEma = 9000, !.errorRateEma = 0],
         [FreshSnapshot EXCEPT !.skillTrend = 6200, !.fatigue = 6200, !.errorRateEma = 5000,
                               !.hesitation = 3000],
         [FreshSnapshot EXCEPT !.skillTrend = -5000, !.winRateEma = -10000, !.fatigue = 20000,
                               !.errorRateEma = 20000, !.hesitation = 20000],
         [FreshSnapshot EXCEPT !.skillTrend = 20000, !.winRateEma = 30000, !.fatigue = -3000,
                               !.errorRateEma = -1000, !.hesitation = -20000]}
  IN
  \/ NewController
  \/ \E playerSnap \in AnySnapshots, beat \in AnyBeats : Compute(playerSnap, beat)

SpecFlow == Init /\ [][NextFlow]_vars

(***************************************************************************)
(* A PlayerModel driven on its own: new PlayerModel(cfg), then             *)
(* observeTurn(summary) and observeGame(result).  turnsFed lists the turn  *)
(* payloads fed so far, oldest first.                                      *)
(***************************************************************************)

NewPlayer ==
  LET PlayerCfgs ==
        LET PlayerOptions ==
              {<<>>,
               [skillInitial |-> 9790, skillVarInitial |-> 3500],
               [skillInitial |-> 9800, skillVarInitial |-> 500],
               [skillInitial |-> 200],
               [skillInitial |-> 210, turnTimeTargetMs |-> 12000, actionsPerTurnTarget |-> 3]}
        IN
                    {DirectorCfg(options) : options \in PlayerOptions}
  IN
  /\ director = <<>>
  /\ player = <<>>
  /\ \E cfg \in PlayerCfgs :
       player' = [pm |-> PlayerModel(cfg), cfg |-> cfg, turnsFed |-> <<>>]
  /\ last' = <<[op |-> "new"]>>
  /\ UNCHANGED <<director, rng, outcomes, scheduler, controller, ema, stats, units, match, grid, game, convo>>

\* player.observeTurn(summary), while fewer than limit turns were observed
PlayerTurnWithin(limit, summary) ==
  /\ player # <<>>
  /\ player.pm.turns < limit
  /\ player' = [player EXCEPT
                  !.pm = PlayerModel_observeTurn(player.pm, player.cfg, summary),
                  !.turnsFed = Append(@, summary)]
  /\ last' = <<[op |-> "observeTurn", summary |-> summary]>>
  /\ UNCHANGED <<director, rng, outcomes, scheduler, controller, ema, stats, units, match, grid, game, convo>>

\* player.observeGame(result)
PlayerGame(result) ==
  /\ player # <<>>
  /\ player.pm.games < MaxGames
  /\ player' = [player EXCEPT
                  !.pm = PlayerModel_observeGame(player.pm, player.cfg, result)]
  /\ last' = <<[op |-> "observeGame", result |-> result]>>
  /\ UNCHANGED <<director, rng, outcomes, scheduler, controller, ema, stats, units, match, grid, game, convo>>

\* turns only, with every payload
\* turn payloads of every kind: fields missing, negative, far out of
\* range, infinite and NaN
SpecTurns ==
  Init /\ [][LET AnyTurns ==
                   {<<>>,
                    [turnMs |-> 3000, actionsTaken |-> 2, mistakes |-> 1],
                    [turnMs |-> -500, actionsTaken |-> -3, mistakes |-> -1],
                    [turnMs |-> 999999, actionsTaken |-> 500, mistakes |-> 500],
                    [turnMs |-> Infinity, actionsTaken |-> Infinity, mistakes |-> Infinity],
                    [turnMs |-> -Infinity, mistakes |-> 4],
                    [turnMs |-> NaN, actionsTaken |-> 2],
                    [actionsTaken |-> NaN, mistakes |-> 2],
                    [actionsTaken |-> 2, mistakes |-> NaN]}
             IN
             \/ NewPlayer
             \/ \E summary \in AnyTurns : PlayerTurnWithin(MaxTurns, summary)]_vars

\* long runs of turns: slow ones (20000 ms, no counts given) and brisk ones
MaxSlowTurns == 10

SpecSlow ==
  Init /\ [][LET SlowTurns == {[turnMs |-> 20000], [turnMs |-> 3000, actionsTaken |-> 2]}
             IN
             \/ NewPlayer
             \/ \E summary \in SlowTurns : PlayerTurnWithin(MaxSlowTurns, summary)]_vars

\* games only, with every result
\* every game result: playerWon, closeGame and comeback each given or not
SpecGames ==
  Init /\ [][LET AnyResults ==
                   {<<>>,
                    [closeGame |-> TRUE],
                    [comeback |-> TRUE],
                    [closeGame |-> TRUE, comeback |-> TRUE],
                    [playerWon |-> TRUE],
                    [playerWon |-> TRUE, closeGame |-> TRUE],
                    [playerWon |-> TRUE, comeback |-> TRUE],
                    [playerWon |-> TRUE, closeGame |-> TRUE, comeback |-> TRUE]}
             IN
             \/ NewPlayer
             \/ \E result \in AnyResults : PlayerGame(result)]_vars

(***************************************************************************)
(* An EMA driven on its own: new EMA(alpha, initial), then push(x).  The   *)
(* smoothing factors are the ones the program constructs its EMAs with.    *)
(***************************************************************************)
MaxPushes == 3

NewEma ==
  LET Initials == {0, 2000, 7000, 65000}
  IN
  LET Alphas == {600, 800, 1000, 1200, 1500}
  IN
  /\ director = <<>>
  /\ ema = <<>>
  /\ \E alpha \in Alphas, initial \in Initials :
       ema' = [e |-> EMA(alpha, initial), pushes |-> 0]
  /\ last' = <<[op |-> "new"]>>
  /\ UNCHANGED <<director, rng, outcomes, scheduler, controller, player, stats, units, match, grid, game, convo>>

\* ema.push(x)
Push(x) ==
  /\ ema # <<>>
  /\ ema.pushes < MaxPushes
  /\ ema' = [e |-> EMA_push(ema.e, x), pushes |-> ema.pushes + 1]
  /\ last' = <<[op |-> "push", x |-> x, before |-> ema.e, ret |-> EMA_push(ema.e, x).value]>>
  /\ UNCHANGED <<director, rng, outcomes, scheduler, controller, player, stats, units, match, grid, game, convo>>

SpecEma ==
  Init /\ [][LET Pushed == {0, 3333, SCALE}
             IN
             \/ NewEma
             \/ \E x \in Pushed : Push(x)]_vars

(***************************************************************************)
(* A RunningStats driven on its own: new RunningStats(), then push(x) with *)
(* turn times in milliseconds and with the three values that are not       *)
(* finite.  pushed lists the values pushed so far, oldest first.           *)
(***************************************************************************)
MaxSamples == 3

NewStats ==
  /\ director = <<>>
  /\ stats = <<>>
  /\ stats' = [rs |-> RunningStats, pushed |-> <<>>]
  /\ last' = <<[op |-> "new"]>>
  /\ UNCHANGED <<director, rng, outcomes, scheduler, controller, player, ema, units, match, grid, game, convo>>

\* stats.push(x)
PushSample(x) ==
  /\ stats # <<>>
  /\ Len(stats.pushed) < MaxSamples
  /\ stats' = [rs |-> RunningStats_push(stats.rs, x), pushed |-> Append(stats.pushed, x)]
  /\ last' = <<[op |-> "push", x |-> x, before |-> stats.rs]>>
  /\ UNCHANGED <<director, rng, outcomes, scheduler, controller, player, ema, units, match, grid, game, convo>>

SpecStats ==
  Init /\ [][LET Samples == {NaN, Infinity, -Infinity, 200, 3000, 60000}
             IN
             \/ NewStats
             \/ \E x \in Samples : PushSample(x)]_vars

(***************************************************************************)
(* The opponent's action selector applied to the units of a match, with    *)
(* the depth and randomness of a plan.  The boards include arrays without  *)
(* bot units and the empty array.                                          *)
(***************************************************************************)

NewMatch ==
  LET Boards ==
            \* mkUnit, with the hit points the unit has left
        LET mkUnit(id, side, type, r, c, hp0) ==
              [id |-> id, side |-> side, type |-> type, r |-> r, c |-> c, hp |-> hp0, shield |-> 0]
        IN
        {<<>>,
         <<mkUnit("p1", "player", "trooper", 5, 5, 2)>>,
         <<mkUnit("p1", "player", "sniper", 0, 0, 1), mkUnit("p2", "player", "trooper", 0, 1, 2)>>}
        \cup {<<mkUnit("p1", "player", "sniper", 3, pc, hp), mkUnit("b1", "bot", "trooper", br, 3, 2)>> :
                pc \in {1, 4, 5}, hp \in {1, 2}, br \in {0, 2, 3}}
        \cup {<<mkUnit("p1", "player", "trooper", 5, 0, hp), mkUnit("b1", "bot", "sniper", br, 0, 1),
                mkUnit("p2", "player", "sniper", 6, 1, 2), mkUnit("b2", "bot", "trooper", 6, 0, 2)>> :
                hp \in {1, 2}, br \in {3, 4}}
  IN
  /\ director = <<>>
  /\ units = <<>>
  /\ \E board \in Boards, score \in {<<0, 0>>, <<3, 1>>} :
       units' = [all |-> board, playerBeaconScore |-> score[1], botBeaconScore |-> score[2]]
  /\ last' = <<[op |-> "new"]>>
  /\ UNCHANGED <<director, rng, outcomes, scheduler, controller, player, ema, stats, match, grid, game, convo>>

\* pickBotAction(units, playerBeaconScore, botBeaconScore, rec)
PickBotAction(rec) ==
  /\ units # <<>>
  /\ LET done(picked) ==
           \E draws \in DOMAIN picked.returns :
             last' = <<[op |-> "pickBotAction", rec |-> rec, chosen |-> picked.returns[draws],
                        allUnits |-> units.all, scored |-> picked.scored,
                        returns |-> picked.returns]>>
     IN done(pickBotAction(units.all, units.playerBeaconScore, units.botBeaconScore, rec))
  /\ UNCHANGED <<director, rng, outcomes, scheduler, controller, player, ema, stats, units, match, grid, game, convo>>

\* the depth and randomness of plans of low, middling and high difficulty
SpecBot ==
  Init /\ [][LET Recs ==
                   {[depth |-> 1, randomness |-> 5480],
                    [depth |-> 1, randomness |-> 3000],
                    [depth |-> 2, randomness |-> 1060]}
             IN
             \/ NewMatch
             \/ \E rec \in Recs : PickBotAction(rec)]_vars

(***************************************************************************)
(* Beacon Tactics, the page and its match.  match holds the variables of   *)
(* the page's closure, the timers it has set that have not fired yet, and  *)
(* a record of what happened: matches started, finishMatch calls in the    *)
(* current match and since the page was loaded, and whether the match was  *)
(* left while a timer of the bot was pending.  director[1] and rng[1] are  *)
(* the FlowDirector the page constructs.  A world w is the three of them,  *)
(* [m, d, a].  Null is "" for a unit id or a winner, 0 for a timer id.     *)
(***************************************************************************)
ACTIONS_PER_TURN == 2
WIN_BEACONS == 5
MAX_TURNS == 18
UNIT_HP == 2
CHECKPOINT_POINTS == 1000
POINTS_PER_WIN == 100
POINTS_PER_LOSS == 0 - 100

MaxMatches == 1
MaxRounds == 2
MaxMistakes == 1
MaxSettled == 13

\* clearBotTimeout that leaves the timer pending
clearBotTimeoutForgets(m) == m

clearBotTimeout(m) ==
  IF m.botTimeout # 0
    THEN [m EXCEPT !.timers = {t \in @ : t.id # m.botTimeout}, !.botTimeout = 0]
    ELSE m

resetMatchState(m) ==
  LET cleared(m1) == [m1 EXCEPT !.actionCountThisTurn = 0, !.mistakesThisTurn = 0]
  IN cleared(clearBotTimeout([m EXCEPT !.matchActive = FALSE,
                                       !.activeSide = "player",
                                       !.turn = 1,
                                       !.actionsLeft = ACTIONS_PER_TURN,
                                       !.playerBeaconScore = 0,
                                       !.botBeaconScore = 0,
                                       !.selectedUnitId = "",
                                       !.units = <<>>]))

\* occupied beacons score
scoreEndOfTurnBeacons(m) ==
  LET held(byPlayer) ==
        Cardinality({k \in DOMAIN BEACONS :
                       LET occ == unitOn(m.units, BEACONS[k].r, BEACONS[k].c)
                       IN occ # <<>> /\ ((occ.side = "player") = byPlayer)})
  IN [m EXCEPT !.playerBeaconScore = @ + held(TRUE), !.botBeaconScore = @ + held(FALSE)]

\* "player", "bot" or null
checkWinner(m) ==
  LET RECURSIVE pow(_, _)
      \* reduce((s, u) => s + u.hp + (u.shield || 0) * 0.6, 0) over the units of a side
      pow(side, k) ==
        IF k > Len(m.units) THEN 0
        ELSE (IF m.units[k].side = side
                THEN m.units[k].hp * SCALE + m.units[k].shield * 6000 ELSE 0)
               + pow(side, k + 1)
      none(side) == \A k \in DOMAIN m.units : m.units[k].side # side
  IN IF m.playerBeaconScore >= WIN_BEACONS \/ none("bot") THEN "player"
     ELSE IF m.botBeaconScore >= WIN_BEACONS \/ none("player") THEN "bot"
     ELSE IF m.turn > MAX_TURNS
       THEN (IF m.playerBeaconScore # m.botBeaconScore
               THEN (IF m.playerBeaconScore > m.botBeaconScore THEN "player" ELSE "bot")
               \* tiebreaker: total health+shield
               ELSE IF pow("player", 1) >= pow("bot", 1) THEN "player" ELSE "bot")
     ELSE ""

\* ProgressAfter without the checkpoint floor
ProgressAfterUnfloored(progress, playerWon) ==
  [progress EXCEPT !.points = @ + (IF playerWon THEN POINTS_PER_WIN ELSE POINTS_PER_LOSS),
                   !.wins = @ + (IF playerWon THEN 1 ELSE 0),
                   !.losses = @ + (IF playerWon THEN 0 ELSE 1),
                   !.totalGames = @ + 1]

\* finishMatch: update progress points with checkpoint floor
ProgressAfter(progress, playerWon) ==
  LET getCheckpointFloor(points) == (Max(0, points) \div CHECKPOINT_POINTS) * CHECKPOINT_POINTS
  IN IF playerWon
       THEN [progress EXCEPT !.points = @ + POINTS_PER_WIN,
                             !.wins = @ + 1,
                             !.totalGames = @ + 1]
       ELSE [progress EXCEPT !.points = Max(@ + POINTS_PER_LOSS, getCheckpointFloor(@)),
                             !.losses = @ + 1,
                             !.totalGames = @ + 1]

\* the first two statements of finishMatch, with the match left active
MatchEndedStillActive(m) == clearBotTimeout(m)

\* the first two statements of finishMatch: matchActive = false; clearBotTimeout()
MatchEnded(m) == clearBotTimeout([m EXCEPT !.matchActive = FALSE])

\* if (winner) finishMatch(winner): what a handler does with the value of
\* checkWinner, which is "" when there is no winner yet
finishMatch(w, winner) ==
  LET playerWon == winner = "player"
      ended(m) == [m EXCEPT !.progress = ProgressAfter(@, playerWon),
                            !.startDisabled = FALSE,
                            !.finished = @ + 1,
                            !.settled = @ + 1]
      learnt(r) == [m |-> ended(MatchEnded(w.m)), d |-> r.d, a |-> r.a]
  IN IF winner = "" THEN w
     ELSE learnt(FlowDirector_observeGame(w.d, w.a,
                   [playerWon |-> playerWon,
                    turns |-> w.m.turn,
                    closeGame |-> Abs(w.m.playerBeaconScore - w.m.botBeaconScore) <= 1,
                    comeback |-> FALSE,
                    playerBeaconScore |-> w.m.playerBeaconScore,
                    botBeaconScore |-> w.m.botBeaconScore]))

\* actOnce of botActSequence, run with botActsLeft actions left and the plan
\* rec; first tells which of two ways the draws of Math.random fall: the
\* shuffle leaves the first place alone, or it brings the second to it.
\* winner is the winner it calls finishMatch with, the last thing it does.
actOnce(w, botActsLeft, rec, first) ==
  LET judged(w1, winner) ==
        [w |-> w1,
         botActsLeft |-> IF winner # "" THEN 0 ELSE botActsLeft - 1,
         winner |-> winner]
      acted(w1) == judged(w1, checkWinner(w1.m))
      applied(chosen) ==
        IF chosen = <<>> THEN [w |-> w, botActsLeft |-> 0, winner |-> ""]
        ELSE acted([w EXCEPT !.m.units = applyAction(chosen, @)])
      drawn(returns) ==
        applied(returns[CHOOSE draws \in DOMAIN returns :
                          \A i \in DOMAIN draws : draws[i] = IF first THEN i ELSE 1])
  IN drawn(pickBotAction(w.m.units, w.m.playerBeaconScore, w.m.botBeaconScore, rec).returns)

\* finishBotTurn of botActSequence; winner is the winner it returns
\* finishMatch with
finishBotTurn(w) ==
  LET judged(w1, winner) ==
        IF winner # "" THEN [w |-> w1, winner |-> winner]
        ELSE [w |-> [w1 EXCEPT !.m.activeSide = "player",
                               !.m.turn = @ + 1,
                               !.m.actionsLeft = ACTIONS_PER_TURN,
                               !.m.selectedUnitId = "",
                               !.m.actionCountThisTurn = 0,
                               !.m.mistakesThisTurn = 0],
              winner |-> ""]
      \* bot scores beacons at end of its turn
      scored(w1) == judged(w1, checkWinner(w1.m))
  IN IF ~w.m.matchActive THEN [w |-> w, winner |-> ""]
     ELSE scored([w EXCEPT !.m = scoreEndOfTurnBeacons(@)])

\* the page after the handler has run
Page(w, what) ==
  /\ match' = w.m
  /\ director' = <<w.d>>
  /\ rng' = <<w.a>>
  /\ last' = <<what>>
  /\ UNCHANGED <<outcomes, scheduler, controller, player, ema, stats, units, grid, game, convo>>

\* the page after a handler that ends by calling finishMatch when it has
\* found a winner; ok tells whether the click is one the model makes
Handled(res) ==
  /\ res.ok
  /\ Page(finishMatch(res.w, res.winner), res.what)

\* the page is loaded: the director is constructed and the progress read
\* from an empty storage
LoadPage ==
  /\ director = <<>>
  /\ match = <<>>
  /\ LET made(r) ==
           Page([m |-> [progress |-> [points |-> 0, wins |-> 0, losses |-> 0, totalGames |-> 0],
                        matchActive |-> FALSE,
                        activeSide |-> "player",
                        turn |-> 1,
                        actionsLeft |-> ACTIONS_PER_TURN,
                        playerBeaconScore |-> 0,
                        botBeaconScore |-> 0,
                        selectedUnitId |-> "",
                        botTimeout |-> 0,
                        actionCountThisTurn |-> 0,
                        mistakesThisTurn |-> 0,
                        units |-> <<>>,
                        startDisabled |-> FALSE,
                        timers |-> {},
                        timersSet |-> 0,
                        matches |-> 0,
                        finished |-> 0,
                        settled |-> 0,
                        abandoned |-> FALSE],
                 d |-> r.d, a |-> r.a],
                [op |-> "load"])
     IN made(FlowDirector([targetWinRate |-> 5800, turnTimeTargetMs |-> 7000,
                           actionsPerTurnTarget |-> ACTIONS_PER_TURN, botDelayMs |-> 650],
                          1234567))

\* a click on Start Match, which startMatch disables until the match is finished
StartMatch ==
  /\ match # <<>>
  /\ ~match.startDisabled
  /\ match.matches < MaxMatches
  /\ LET mkUnit(id, side, type, r, c) ==
           [id |-> id, side |-> side, type |-> type, r |-> r, c |-> c,
            hp |-> UNIT_HP, shield |-> 0]
         deployed(m) ==
           [m EXCEPT !.matchActive = TRUE,
                     !.units = <<mkUnit("p1", "player", "trooper", 6, 1),
                                 mkUnit("p2", "player", "trooper", 6, 3),
                                 mkUnit("p3", "player", "sniper", 6, 5),
                                 mkUnit("b1", "bot", "trooper", 0, 1),
                                 mkUnit("b2", "bot", "trooper", 0, 3),
                                 mkUnit("b3", "bot", "sniper", 0, 5)>>,
                     !.activeSide = "player",
                     !.actionsLeft = ACTIONS_PER_TURN,
                     !.turn = 1,
                     !.actionCountThisTurn = 0,
                     !.mistakesThisTurn = 0,
                     !.startDisabled = TRUE,
                     !.matches = @ + 1,
                     !.finished = 0,
                     !.abandoned = FALSE]
     IN Page([m |-> deployed(resetMatchState(match)), d |-> director[1], a |-> rng[1]],
             [op |-> "startMatch"])

\* onTileClick(r, c)
TileClick(r, c) ==
  /\ match # <<>>
  /\ match.matchActive /\ match.activeSide = "player"
  /\ match.actionsLeft > 0
  /\ LET w == [m |-> match, d |-> director[1], a |-> rng[1]]
         res(w1, winner, did, ok) ==
           [w |-> w1, winner |-> winner, what |-> [op |-> "tile", did |-> did], ok |-> ok]
         done(m1, did) == res([w EXCEPT !.m = m1], checkWinner(m1), did, TRUE)
         act(action) ==
           done([match EXCEPT !.units = applyAction(action, @),
                              !.actionsLeft = @ - 1,
                              !.actionCountThisTurn = @ + 1,
                              !.selectedUnitId = ""],
                action.type)
         mistake ==
           res([w EXCEPT !.m.mistakesThisTurn = @ + 1], "", "mistake",
               match.mistakesThisTurn < MaxMistakes)
         move(u) ==
           LET acts == actionsFor(match.units[u], match.units)
               hits == SelectSeq(acts, LAMBDA x : x.type # "fortify" /\ x.to.r = r /\ x.to.c = c)
           IN IF hits = <<>> THEN mistake ELSE act(hits[1])
         clicked == unitOn(match.units, r, c)
     IN Handled(IF clicked # <<>> /\ clicked.side = "player"
                  THEN IF match.selectedUnitId = clicked.id
                         THEN act([type |-> "fortify", unitId |-> clicked.id,
                                   to |-> [r |-> r, c |-> c]])
                         ELSE res([w EXCEPT !.m.selectedUnitId = clicked.id], "", "select", TRUE)
                ELSE IF match.selectedUnitId = "" THEN mistake
                ELSE IF IndexOf(match.units, match.selectedUnitId) = 0
                  THEN res([w EXCEPT !.m.selectedUnitId = ""], "", "deselect", TRUE)
                ELSE move(IndexOf(match.units, match.selectedUnitId)))

\* a click on End Turn: endPlayerTurn, the turn having taken turnMs
EndPlayerTurn(turnMs) ==
  /\ match # <<>>
  /\ match.matchActive /\ match.activeSide = "player"
  /\ match.turn <= MaxRounds
  /\ LET \* bot starts after pacing
         waits(w1) ==
           [w1 EXCEPT !.m.activeSide = "bot",
                      !.m.selectedUnitId = "",
                      !.m.timers = @ \cup {[id |-> w1.m.timersSet + 1,
                                            run |-> "botActSequence",
                                            rec |-> <<>>,
                                            botActsLeft |-> ACTIONS_PER_TURN,
                                            match |-> w1.m.matches]},
                      !.m.botTimeout = w1.m.timersSet + 1,
                      !.m.timersSet = @ + 1]
         judged(w1, winner) ==
           [w |-> IF winner # "" THEN w1 ELSE waits(w1), winner |-> winner,
            what |-> [op |-> "endTurn"], ok |-> TRUE]
         \* score beacons at end of player turn
         scored(w1) == judged(w1, checkWinner(w1.m))
         \* telemetry for player turn
         committed(r) ==
           scored([m |-> scoreEndOfTurnBeacons(match), d |-> r.d, a |-> rng[1]])
     IN Handled(committed(FlowDirector_observeTurn(director[1],
                            [turnMs |-> turnMs,
                             actionsTaken |-> match.actionCountThisTurn,
                             mistakes |-> match.mistakesThisTurn])))

\* a timer of the bot fires: botActSequence after the pacing delay, or the
\* bot's second action after the delay between its actions
BotTimer(first) ==
  /\ match # <<>>
  /\ \E t \in match.timers :
       LET w == [m |-> [match EXCEPT !.timers = @ \ {t}], d |-> director[1], a |-> rng[1]]
           res(s) ==
             [w |-> s.w, winner |-> s.winner,
              what |-> [op |-> "botTimer", run |-> t.run, scheduledIn |-> t.match,
                        wasActive |-> match.matchActive],
              ok |-> TRUE]
           \* pacing between bot actions
           paced(s, rec) ==
             \* if (!matchActive) return;
             IF s.winner # "" \/ ~s.w.m.matchActive THEN res(s)
             ELSE IF s.botActsLeft > 0
               THEN res([w |-> [s.w EXCEPT !.m.timers = @ \cup {[id |-> s.w.m.timersSet + 1,
                                                                 run |-> "actOnce",
                                                                 rec |-> rec,
                                                                 botActsLeft |-> s.botActsLeft,
                                                                 match |-> s.w.m.matches]},
                                           !.m.botTimeout = s.w.m.timersSet + 1,
                                           !.m.timersSet = @ + 1],
                         winner |-> ""])
             ELSE res(finishBotTurn(s.w))
           botActSequence(rec) ==
             IF ~w.m.matchActive \/ w.m.activeSide # "bot" THEN res([w |-> w, winner |-> ""])
             ELSE paced(actOnce(w, ACTIONS_PER_TURN, rec, first), rec)
           \* actOnce(); finishBotTurn();
           second(s) == IF s.winner # "" THEN res(s) ELSE res(finishBotTurn(s.w))
       IN Handled(IF t.run = "botActSequence"
                    THEN botActSequence(FlowDirector_recommend(director[1]).ret)
                    ELSE second(actOnce(w, t.botActsLeft, t.rec, first)))

\* a click on Back
Back ==
  /\ match # <<>>
  /\ Page([m |-> [clearBotTimeout([match EXCEPT !.matchActive = FALSE])
                    EXCEPT !.abandoned = @ \/ match.timers # {}],
           d |-> director[1], a |-> rng[1]],
          [op |-> "back", pending |-> {t.run : t \in match.timers}])

\* a click on Reset Run
ResetRun ==
  /\ match # <<>>
  /\ Page([m |-> [resetMatchState(match)
                    EXCEPT !.progress = [points |-> 0, wins |-> 0, losses |-> 0, totalGames |-> 0],
                           !.abandoned = @ \/ match.timers # {}],
           d |-> director[1], a |-> rng[1]],
          [op |-> "resetRun", pending |-> {t.run : t \in match.timers}])

SpecMatch ==
  Init /\ [][\/ LoadPage
             \/ StartMatch
             \/ \E r \in {5, 6}, c \in {1, 5} : TileClick(r, c)
             \/ \E turnMs \in {6000} : EndPlayerTurn(turnMs)
             \/ \E first \in BOOLEAN : BotTimer(first)
             \/ Back
             \/ ResetRun]_vars

(***************************************************************************)
(* The progress of a checkpoint run through the results of its matches:    *)
(* the progress update of finishMatch applied to any sequence of results.  *)
(***************************************************************************)
\* progress = Storage.load(), nothing being stored
LoadProgress ==
  /\ director = <<>>
  /\ match = <<>>
  /\ match' = [progress |-> [points |-> 0, wins |-> 0, losses |-> 0, totalGames |-> 0],
               settled |-> 0]
  /\ last' = <<[op |-> "load"]>>
  /\ UNCHANGED <<director, rng, outcomes, scheduler, controller, player, ema, stats, units, grid, game, convo>>

\* a match finishes with that result
Settle(playerWon) ==
  /\ match # <<>>
  /\ match.settled < MaxSettled
  /\ match' = [progress |-> ProgressAfter(match.progress, playerWon),
               settled |-> match.settled + 1]
  /\ last' = <<[op |-> "finishMatch", playerWon |-> playerWon, before |-> match.progress]>>
  /\ UNCHANGED <<director, rng, outcomes, scheduler, controller, player, ema, stats, units, grid, game, convo>>

\* progress = Storage.reset()
ResetProgress ==
  /\ match # <<>>
  /\ match.progress.totalGames > 0
  /\ match' = [match EXCEPT !.progress = [points |-> 0, wins |-> 0, losses |-> 0, totalGames |-> 0]]
  /\ last' = <<[op |-> "resetRun"]>>
  /\ UNCHANGED <<director, rng, outcomes, scheduler, controller, player, ema, stats, units, grid, game, convo>>

SpecRun ==
  Init /\ [][\/ LoadProgress
             \/ \E playerWon \in BOOLEAN : Settle(playerWon)
             \/ ResetProgress]_vars

(***************************************************************************)
(* BotEngine: the Grundy table of the board, the bot's move and the start  *)
(* position, and a game the bot opens against any legal play.              *)
(***************************************************************************)

\* buildGrundy(N): the table filled row by row, each cell the least value
\* no position one move away carries
buildGrundy(N) ==
  LET mex(seen) == CHOOSE m \in 0..(N * 3 + 5) :
                     m \notin seen /\ (\A j \in 0..(m - 1) : j \in seen)
      cell(g, x, y) ==
        IF x = 0 /\ y = 0 THEN 0
        ELSE mex({g[x - k][y] : k \in 1..x}
                 \cup {g[x][y - k] : k \in 1..y}
                 \cup {g[x - k][y - k] : k \in 1..Min(x, y)})
      \* grundy[x][y] = mex; if (mex > maxGrundy) maxGrundy = mex;
      filled(r, x, y, v) ==
        [grundy |-> [r.grundy EXCEPT ![x][y] = v],
         maxGrundy |-> IF v > r.maxGrundy THEN v ELSE r.maxGrundy]
      \* the cells y..N of row x; a step starts from the table of the step
      \* before it as a value
      RECURSIVE row(_, _, _)
      row(r, x, y) ==
        IF y > N THEN r
        ELSE CHOOSE done \in {row(next, x, y + 1) :
                                next \in {filled(r, x, y, cell(r.grundy, x, y))}} : TRUE
      \* the table after the rows 0..x
      RECURSIVE rows(_)
      rows(x) ==
        IF x < 0 THEN [grundy |-> [i \in 0..N |-> [j \in 0..N |-> 0]], maxGrundy |-> 0]
        ELSE CHOOSE done \in {row(r, x, 0) : r \in {rows(x - 1)}} : TRUE
  IN rows(N)

\* listLegalMoves(x, y): down x, then down y, then down both, nearest first
listLegalMoves(x, y) ==
  [k \in 1..x |-> [toX |-> x - k, toY |-> y]]
  \o [k \in 1..y |-> [toX |-> x, toY |-> y - k]]
  \o [k \in 1..Min(x, y) |-> [toX |-> x - k, toY |-> y - k]]

\* getBotMove answering with legal[0] whatever the table says
getBotMoveFirstLegal(state) ==
  IF state.x = 0 /\ state.y = 0 THEN <<>>
  ELSE [toX |-> listLegalMoves(state.x, state.y)[1].toX,
        toY |-> listLegalMoves(state.x, state.y)[1].toY,
        reasoning |-> "warning_no_cold", style |-> ""]

\* getBotMove(state): null (the empty tuple) at the origin, else the move
\* with its meta fields
getBotMove(state) ==
  LET x == state.x
      y == state.y
      grundy == state.grundy
      legal == listLegalMoves(x, y)
      coldMoves == SelectSeq(legal, LAMBDA move : grundy[move.toX][move.toY] = 0)
      countReplies(pos) == Len(listLegalMoves(pos.toX, pos.toY))
      skill == IF "skill" \in DOMAIN state.playerModel THEN state.playerModel.skill ELSE HALF
      style == IF skill < HALF THEN "teaching" ELSE "competitive"
      better(move, best) ==
        IF style = "teaching" THEN countReplies(move) < countReplies(best)
        ELSE countReplies(move) > countReplies(best)
      RECURSIVE reduce(_, _)
      reduce(best, i) ==
        IF i > Len(coldMoves) THEN best
        ELSE reduce(IF better(coldMoves[i], best) THEN coldMoves[i] ELSE best, i + 1)
      answer(move, reasoning, st) ==
        [toX |-> move.toX, toY |-> move.toY, reasoning |-> reasoning, style |-> st]
  IN IF x = 0 /\ y = 0 THEN <<>>
     ELSE IF grundy[x][y] = 0 \/ Len(coldMoves) = 0
       THEN answer(legal[1], "warning_no_cold", "")
     ELSE answer(reduce(coldMoves[1], 1), "cold_target", style)

\* chooseStartState(directorState): every state the call can return, over
\* the draws of randomInt
chooseStartState(directorState) ==
  LET skill == IF "skill" \in DOMAIN directorState THEN directorState.skill ELSE HALF
      minN == IF skill < 3500 THEN 8 ELSE IF skill < 7000 THEN 11 ELSE 16
      maxN == IF skill < 3500 THEN 10 ELSE IF skill < 7000 THEN 15 ELSE 20
      minCoord == IF skill < 3500 THEN 2 ELSE IF skill < 7000 THEN 4 ELSE 6
      maxCoord(N) == Max(minCoord, N - 1)
      \* the first hundred attempts draw from minCoord..maxCoord, later ones from 1..N
      drawn(N) == ((minCoord..maxCoord(N)) \X (minCoord..maxCoord(N)))
                  \cup ((1..N) \X (1..N))
      starts(N, grundyData) ==
        {[N |-> N, startX |-> p[1], startY |-> p[2], botGoesFirst |-> TRUE,
          grundyData |-> grundyData] :
           p \in {q \in drawn(N) : grundyData.grundy[q[1]][q[2]] # 0}}
  IN UNION {starts(N, buildGrundy(N)) : N \in minN..maxN}

\* a game opened with chooseStartState for the director's skill estimate,
\* against a player the bot's own model rates modelSkill
ChooseStartState(skill, modelSkill) ==
  /\ game = <<>>
  /\ \E start \in chooseStartState([skill |-> skill]) :
       game' = <<[x |-> start.startX, y |-> start.startY, N |-> start.N,
                  grundy |-> start.grundyData.grundy,
                  playerModel |-> [skill |-> modelSkill],
                  botToMove |-> start.botGoesFirst,
                  mover |-> "", reasoning |-> "", from |-> <<>>]>>
  /\ UNCHANGED <<director, rng, last, outcomes, scheduler, controller, player, ema, stats, units, match, grid, convo>>

\* the bot's turn: the move getBotMove returns is played
BotMove ==
  /\ game # <<>>
  /\ game[1].botToMove
  /\ getBotMove(game[1]) # <<>>
  /\ LET play(move) ==
           game' = <<[game[1] EXCEPT !.x = move.toX, !.y = move.toY,
                                     !.botToMove = FALSE,
                                     !.mover = "bot", !.reasoning = move.reasoning,
                                     !.from = <<game[1].x, game[1].y>>]>>
     IN play(getBotMove(game[1]))
  /\ UNCHANGED <<director, rng, last, outcomes, scheduler, controller, player, ema, stats, units, match, grid, convo>>

\* the opponent's turn: any legal move
OpponentMove ==
  /\ game # <<>>
  /\ ~game[1].botToMove
  /\ \E move \in {listLegalMoves(game[1].x, game[1].y)[i] :
                      i \in 1..Len(listLegalMoves(game[1].x, game[1].y))} :
       game' = <<[game[1] EXCEPT !.x = move.toX, !.y = move.toY,
                                 !.botToMove = TRUE,
                                 !.mover = "opponent", !.reasoning = "",
                                 !.from = <<game[1].x, game[1].y>>]>>
  /\ UNCHANGED <<director, rng, last, outcomes, scheduler, controller, player, ema, stats, units, match, grid, convo>>

SpecGrundy ==
  Init /\ [][\/ \E skill \in {2000, 5000, 8000}, modelSkill \in {2000, 8000} :
                  ChooseStartState(skill, modelSkill)
             \/ BotMove
             \/ OpponentMove]_vars

(***************************************************************************)
(* The grid game: a match of alternating marks on the 5 x 5 grid, the bot  *)
(* answering each player mark from a 450 ms timer.  timers lists the       *)
(* pending botMove timers, oldest first, each with the number of the match *)
(* it was set in; marked describes the bot's latest mark.                  *)
(***************************************************************************)
GRID_SIZE == 5
MAX_MATCH_TURNS == 16
MaxStarts == 2

\* resetGrid()
resetGrid(g) ==
  [g EXCEPT !.cells = [i \in 1..(GRID_SIZE * GRID_SIZE) |-> ""],
            !.locked = FALSE,
            !.playerScore = 0, !.botScore = 0, !.totalMoves = 0,
            !.playerTurn = TRUE, !.matchActive = FALSE]

\* resolveMatch(), updateAdaptiveState and Storage.save included
resolveMatch(g) ==
  LET playerScore == IF g.playerWins /\ g.playerScore <= g.botScore
                       THEN g.botScore + 1 ELSE g.playerScore
      botScore == IF ~g.playerWins /\ g.botScore <= playerScore
                    THEN playerScore + 1 ELSE g.botScore
      checkpointBase == (g.state.points \div CHECKPOINT_POINTS) * CHECKPOINT_POINTS
      reward == IF g.playerWins THEN SCALE ELSE 0
      winRateEma == g.state.winRateEma + Mul(800, reward - g.state.winRateEma)
      settled ==
        [points |-> IF g.playerWins THEN g.state.points + POINTS_PER_WIN
                    ELSE Max(g.state.points + POINTS_PER_LOSS, checkpointBase),
         wins |-> g.state.wins + (IF g.playerWins THEN 1 ELSE 0),
         losses |-> g.state.losses + (IF g.playerWins THEN 0 ELSE 1),
         totalGames |-> g.state.totalGames + 1,
         winRateEma |-> winRateEma,
         volatility |-> clamp(Mul(g.state.volatility, 9000)
                              + Mul(Abs(reward - winRateEma), 1000), 1200, 4500)]
  IN [g EXCEPT !.matchActive = FALSE, !.locked = TRUE,
               !.playerScore = playerScore, !.botScore = botScore,
               !.state = settled, !.stored = settled,
               !.startDisabled = FALSE]

\* startMatch(), playerWins as Math.random() < winChance turns out
startMatch(g, playerWins) ==
  [resetGrid(g) EXCEPT !.matchActive = TRUE, !.startDisabled = TRUE,
                       !.playerWins = playerWins, !.matchNo = g.matchNo + 1]

\* initApp(): nothing stored yet
InitApp ==
  /\ grid = <<>>
  /\ LET getDefaultState ==
           [points |-> 0, wins |-> 0, losses |-> 0, totalGames |-> 0,
            winRateEma |-> HALF, volatility |-> 2500]
     IN grid' = <<resetGrid([state |-> getDefaultState, stored |-> <<>>,
                             screen |-> "checkpoint",
                             cells |-> <<>>, locked |-> FALSE,
                             playerTurn |-> TRUE, matchActive |-> FALSE,
                             playerWins |-> TRUE,
                             playerScore |-> 0, botScore |-> 0, totalMoves |-> 0,
                             startDisabled |-> FALSE,
                             timers |-> <<>>, matchNo |-> 0, marked |-> <<>>])>>
  /\ UNCHANGED <<director, rng, last, outcomes, scheduler, controller, player, ema, stats, units, match, game, convo>>

\* a click on cell i of the game screen: handleCellClick(cell).  The player
\* tries the first free cell or the last cell of the grid.
HandleCellClick(i) ==
  /\ grid # <<>>
  /\ \/ i = GRID_SIZE * GRID_SIZE
     \/ \A k \in 1..(i - 1) : grid[1].cells[k] # ""
  /\ grid[1].screen = "game"
  /\ ~grid[1].locked
  /\ grid[1].matchActive /\ grid[1].playerTurn
  /\ grid[1].cells[i] = ""
  /\ LET g == grid[1]
         moved == [g EXCEPT !.cells[i] = "player",
                            !.playerScore = g.playerScore + 1,
                            !.totalMoves = g.totalMoves + 1]
     IN grid' = <<IF moved.totalMoves >= MAX_MATCH_TURNS THEN resolveMatch(moved)
                  ELSE [moved EXCEPT !.playerTurn = FALSE,
                                     \* setTimeout(botMove, 450)
                                     !.timers = Append(g.timers, g.matchNo)]>>
  /\ UNCHANGED <<director, rng, last, outcomes, scheduler, controller, player, ema, stats, units, match, game, convo>>

\* the oldest pending timer fires: botMove(), its random choice the first
\* or the last of the available cells
BotMoveTimer(first) ==
  /\ grid # <<>>
  /\ grid[1].timers # <<>>
  /\ LET g == [grid[1] EXCEPT !.timers = Tail(grid[1].timers)]
         available == {i \in DOMAIN g.cells : g.cells[i] = ""}
         choice == IF first THEN CHOOSE i \in available : \A j \in available : i <= j
                   ELSE CHOOSE i \in available : \A j \in available : i >= j
         moved == [g EXCEPT !.cells[choice] = "bot",
                            !.botScore = g.botScore + 1,
                            !.totalMoves = g.totalMoves + 1,
                            !.marked = [playerTurn |-> g.playerTurn,
                                        cell |-> choice,
                                        setIn |-> Head(grid[1].timers),
                                        match |-> g.matchNo]]
     IN grid' = <<IF ~g.matchActive THEN g
                  ELSE IF available = {} THEN resolveMatch(g)
                  ELSE IF moved.totalMoves >= MAX_MATCH_TURNS THEN resolveMatch(moved)
                  ELSE [moved EXCEPT !.playerTurn = TRUE]>>
  /\ UNCHANGED <<director, rng, last, outcomes, scheduler, controller, player, ema, stats, units, match, game, convo>>

\* playBtn: switchScreen("game"); startMatch()
PlayBtn(playerWins) ==
  /\ grid # <<>>
  /\ grid[1].screen = "checkpoint"
  /\ grid[1].matchNo < MaxStarts
  /\ grid' = <<[startMatch(grid[1], playerWins) EXCEPT !.screen = "game"]>>
  /\ UNCHANGED <<director, rng, last, outcomes, scheduler, controller, player, ema, stats, units, match, game, convo>>

\* backBtn: switchScreen("checkpoint"), and nothing else
BackBtn ==
  /\ grid # <<>>
  /\ grid[1].screen = "game"
  /\ grid' = <<[grid[1] EXCEPT !.screen = "checkpoint"]>>
  /\ UNCHANGED <<director, rng, last, outcomes, scheduler, controller, player, ema, stats, units, match, game, convo>>

\* startMatchBtn, enabled between matches
StartMatchBtn(playerWins) ==
  /\ grid # <<>>
  /\ grid[1].screen = "game"
  /\ ~grid[1].startDisabled
  /\ grid[1].matchNo < MaxStarts
  /\ grid' = <<startMatch(grid[1], playerWins)>>
  /\ UNCHANGED <<director, rng, last, outcomes, scheduler, controller, player, ema, stats, units, match, game, convo>>

\* resetRunBtn: Storage.reset(), Storage.save(state), resetGrid()
ResetRunBtn ==
  /\ grid # <<>>
  /\ LET getDefaultState ==
           [points |-> 0, wins |-> 0, losses |-> 0, totalGames |-> 0,
            winRateEma |-> HALF, volatility |-> 2500]
     IN grid' = <<resetGrid([grid[1] EXCEPT !.state = getDefaultState,
                                            !.stored = getDefaultState])>>
  /\ UNCHANGED <<director, rng, last, outcomes, scheduler, controller, player, ema, stats, units, match, game, convo>>

SpecGrid ==
  Init /\ [][\/ InitApp
             \/ \E i \in 1..(GRID_SIZE * GRID_SIZE) : HandleCellClick(i)
             \/ \E first \in BOOLEAN : BotMoveTimer(first)
             \/ \E playerWins \in BOOLEAN : PlayBtn(playerWins)
             \/ BackBtn
             \/ \E playerWins \in BOOLEAN : StartMatchBtn(playerWins)
             \/ ResetRunBtn]_vars

(***************************************************************************)
(* The adaptive chat: the conversation engine sending assistant messages   *)
(* through UI.sendAssistant, which appends each from a timer of its own.   *)
(* pending holds the timers set and not fired yet, each with the time it   *)
(* is due and the number of the sendAssistant call that set it; now is the *)
(* time of the latest event.                                               *)
(***************************************************************************)
MaxSent == 6

\* ui.sendAssistant(text, { pacing }): the call sets a timer and returns
sendAssistant(c, text, pacing) ==
  [c EXCEPT !.sent = @ + 1,
            !.pending = @ \cup {[text |-> text, due |-> c.now + pacing, sent |-> c.sent + 1]}]

\* startEpisode(type, lastOutcome) with proceedEpisode: pacingDelay is the
\* policy's, pacing the variant the probe engine picked
startEpisode(c, type, pacingDelay, pacing) ==
  LET episode == [type |-> type, pacingDelay |-> pacingDelay, pacing |-> pacing, attempts |-> 0]
      prompted(c1) ==
        sendAssistant(c1, "prompt", IF pacing = "typing-delay" THEN pacingDelay ELSE 0)
  IN [prompted(sendAssistant([c EXCEPT !.episode = episode], "greeting", pacingDelay))
        EXCEPT !.step = "awaiting"]

\* initApp() with nothing stored: conversation.startNextEpisode("auto")
InitChat(type, pacingDelay, pacing) ==
  /\ convo = <<>>
  /\ convo' = <<startEpisode([messages |-> <<>>, episode |-> <<>>, step |-> "idle",
                              pending |-> {}, sent |-> 0, now |-> 0],
                             type, pacingDelay, pacing)>>
  /\ UNCHANGED <<director, rng, last, outcomes, scheduler, controller, player, ema, stats, units, match, grid, game>>

\* handleSend: ui.sendUser(text), then conversation.handleUser(text, features);
\* success is what evaluate makes of the text, and type, pacingDelay and
\* pacing are those of the episode it starts when there is none
HandleSend(text, success, type, pacingDelay, pacing) ==
  /\ convo # <<>>
  /\ convo[1].sent + 2 <= MaxSent
  /\ LET c == [convo[1] EXCEPT !.messages = Append(@, [role |-> "user", text |-> text, sent |-> 0])]
         episode == c.episode
         outro(c1) ==
           \* finalizeEpisode, then the outro
           sendAssistant([c1 EXCEPT !.episode = <<>>, !.step = "idle"], "outro", 300)
         replied(c1) ==
           IF episode.type = "logic" /\ ~success /\ c1.episode.attempts < 2
             THEN [c1 EXCEPT !.step = "awaiting"]
           ELSE outro(c1)
     IN convo' = <<IF episode = <<>>
                     THEN IF text = "pause" THEN sendAssistant(c, "paused", 200)
                          ELSE startEpisode(c, type, pacingDelay, pacing)
                   ELSE replied(sendAssistant([c EXCEPT !.episode.attempts = @ + 1],
                                              "reply", episode.pacingDelay))>>
  /\ UNCHANGED <<director, rng, last, outcomes, scheduler, controller, player, ema, stats, units, match, grid, game>>

\* the timer due first fires (of two due together, the one set first): the
\* callback of sendAssistant appends its message
AssistantTimer ==
  /\ convo # <<>>
  /\ \E t \in convo[1].pending :
       /\ \A u \in convo[1].pending :
            t.due < u.due \/ (t.due = u.due /\ t.sent <= u.sent)
       /\ convo' = <<[convo[1] EXCEPT
                        !.pending = @ \ {t},
                        !.now = Max(@, t.due),
                        !.messages = Append(@, [role |-> "assistant", text |-> t.text,
                                                sent |-> t.sent])]>>
  /\ UNCHANGED <<director, rng, last, outcomes, scheduler, controller, player, ema, stats, units, match, grid, game>>

SpecChat ==
  Init /\ [][\/ \E type \in {"logic", "study"}, pacingDelay \in {400, 800},
                   pacing \in {"immediate", "typing-delay"} :
                  InitChat(type, pacingDelay, pacing)
             \/ \E text \in {"pause", "answer"}, success \in BOOLEAN,
                   type \in {"logic", "study"}, pacingDelay \in {400, 800},
                   pacing \in {"immediate", "typing-delay"} :
                  HandleSend(text, success, type, pacingDelay, pacing)
             \/ AssistantTimer]_vars

(***************************************************************************)
(* Checkpoint Command (src/app.js): the bot's choice of an action.  A unit *)
(* is a record of id, side, type, row, col, hp and shield; an action is a  *)
(* record of type, unitId, to, targetId ("" when the action has none) and  *)
(* ranged.  -Infinity is the number 0 - Infinity.                          *)
(***************************************************************************)

APP_GRID_SIZE == 6
FORTIFY_SHIELD == 1

CONTROL_NODES ==
  <<[row |-> 1, col |-> 2], [row |-> 4, col |-> 2], [row |-> 2, col |-> 4]>>

isControlNode(row, col) ==
  \E k \in DOMAIN CONTROL_NODES : CONTROL_NODES[k].row = row /\ CONTROL_NODES[k].col = col

canSeeInLine(from, to, allUnits) ==
  LET sign(d) == IF d > 0 THEN 1 ELSE IF d < 0 THEN -1 ELSE 0
      dr == sign(to.row - from.row)
      dc == sign(to.col - from.col)
      dist == Abs(to.row - from.row) + Abs(to.col - from.col)
      blocked(r, c) == \E i \in DOMAIN allUnits : allUnits[i].row = r /\ allUnits[i].col = c
  IN
      \* straight line only, no diagonals
  /\ (from.row = to.row \/ from.col = to.col)
  /\ dist >= 1
  /\ dist <= SNIPER_RANGE
      \* check blockers between
  /\ \A k \in 1..(dist - 1) : ~blocked(from.row + k * dr, from.col + k * dc)

getValidActions(unit, allUnits) ==
  LET act(type, to, targetId, ranged) ==
        [type |-> type, unitId |-> unit.id, to |-> to, targetId |-> targetId, ranged |-> ranged]
      getAdjacentTiles ==
        SelectSeq(<<[row |-> unit.row - 1, col |-> unit.col],
                    [row |-> unit.row + 1, col |-> unit.col],
                    [row |-> unit.row, col |-> unit.col - 1],
                    [row |-> unit.row, col |-> unit.col + 1]>>,
                  LAMBDA t : t.row >= 0 /\ t.row < APP_GRID_SIZE /\ t.col >= 0 /\ t.col < APP_GRID_SIZE)
      occ(tile) == SelectSeq(allUnits, LAMBDA u : u.row = tile.row /\ u.col = tile.col)
      \* adjacent moves/attacks (everyone)
      adjacent(tile) ==
        IF occ(tile) = <<>> THEN <<act("move", tile, "", FALSE)>>
        ELSE IF occ(tile)[1].side # unit.side
          THEN <<act("attack", tile, occ(tile)[1].id, FALSE)>>
        ELSE <<>>
      \* sniper line attacks (range 2)
      enemies == SelectSeq(allUnits, LAMBDA u : u.side # unit.side)
      shot(enemy) ==
        IF canSeeInLine(unit, enemy, allUnits)
          THEN <<act("attack", [row |-> enemy.row, col |-> enemy.col], enemy.id, TRUE)>>
          ELSE <<>>
  IN
      \* fortify always available
  <<act("fortify", [row |-> unit.row, col |-> unit.col], "", FALSE)>>
    \o Flatten([k \in DOMAIN getAdjacentTiles |-> adjacent(getAdjacentTiles[k])])
    \o (IF unit.type = "sniper"
          THEN Flatten([k \in DOMAIN enemies |-> shot(enemies[k])])
          ELSE <<>>)

applyActionToUnits(action, allUnits) ==
  LET unit == IndexOf(allUnits, action.unitId)
      target == IndexOf(allUnits, action.targetId)
  IN
  IF unit = 0 THEN allUnits
  ELSE IF action.type = "fortify"
    THEN [allUnits EXCEPT ![unit].shield = @ + FORTIFY_SHIELD]
  ELSE IF action.type = "move"
    THEN [allUnits EXCEPT ![unit].row = action.to.row, ![unit].col = action.to.col]
  ELSE IF action.type = "attack"
    THEN IF target = 0 THEN allUnits
         ELSE IF allUnits[target].shield > 0
           THEN [allUnits EXCEPT ![target].shield = @ - 1]
         ELSE IF allUnits[target].hp - 1 <= 0
           THEN SelectSeq(allUnits, LAMBDA u : u.id # action.targetId)
         ELSE [allUnits EXCEPT ![target].hp = @ - 1]
  ELSE allUnits

\* score from the bot's perspective: higher is better for the bot
evaluateState(allUnits, pControl, bControl) ==
  LET botUnits == SelectSeq(allUnits, LAMBDA u : u.side = "bot")
      playerUnits == SelectSeq(allUnits, LAMBDA u : u.side = "player")
      RECURSIVE reduce(_)
      reduce(values) == IF values = <<>> THEN 0 ELSE Head(values) + reduce(Tail(values))
      power(us) ==
        reduce([k \in DOMAIN us |->
                  us[k].hp * SCALE + us[k].shield * 6000
                    + (IF us[k].type = "sniper" THEN 3500 ELSE 0)])
      controlDiff == (bControl - pControl) * 16000
      powerDiff == Mul(power(botUnits) - power(playerUnits), 13500)
      \* node occupancy bonus
      occ(n) == SelectSeq(allUnits, LAMBDA u : u.row = n.row /\ u.col = n.col)
      nodeDiff ==
        reduce([k \in DOMAIN CONTROL_NODES |->
                  IF occ(CONTROL_NODES[k]) = <<>> THEN 0
                  ELSE IF occ(CONTROL_NODES[k])[1].side = "bot" THEN 5500
                  ELSE -5500])
      \* positional: distance to nodes
      distToNodes(unit) ==
        LET ds == {Abs(unit.row - CONTROL_NODES[k].row) + Abs(unit.col - CONTROL_NODES[k].col) :
                     k \in DOMAIN CONTROL_NODES} \cup {99}
        IN CHOOSE d \in ds : \A e \in ds : d <= e
      pos(us) == reduce([k \in DOMAIN us |-> (6 - distToNodes(us[k])) * 800])
      posDiff == pos(botUnits) - pos(playerUnits)
  IN controlDiff + powerDiff + nodeDiff + posDiff

enumerateActionsForSide(side, allUnits) ==
  LET mine == SelectSeq(allUnits, LAMBDA u : u.side = side)
  IN Flatten([k \in DOMAIN mine |-> getValidActions(mine[k], allUnits)])

\* the action applied to a copy of the units
simulateAction(action, allUnits) == applyActionToUnits(action, allUnits)

scoreImmediateAction(action, allUnits, aggression, pressure) ==
  LET unit == IndexOf(allUnits, action.unitId)
      target == IndexOf(allUnits, action.targetId)
      enemySide == IF allUnits[unit].side = "bot" THEN "player" ELSE "bot"
      aimedAt(id, us) ==
        LET theirs == enumerateActionsForSide(enemySide, us)
        IN \E k \in DOMAIN theirs : theirs[k].type = "attack" /\ theirs[k].targetId = id
      dist ==
        LET ds == {Abs(action.to.row - CONTROL_NODES[k].row) + Abs(action.to.col - CONTROL_NODES[k].col) :
                     k \in DOMAIN CONTROL_NODES} \cup {99}
        IN CHOOSE d \in ds : \A e \in ds : d <= e
  IN
  IF unit = 0 THEN 0
  ELSE IF action.type = "fortify"
      \* fortify is better when threatened
    THEN (IF aimedAt(action.unitId, allUnits) THEN 22000 + Mul(pressure, 14000) ELSE 6000)
  ELSE IF action.type = "attack"
    THEN IF target = 0 THEN 0
         ELSE 32000 + Mul(aggression, 35000)
              \* if the target would die
              + (IF allUnits[target].hp + allUnits[target].shield <= 1 THEN 40000 ELSE 0)
              \* hitting units on nodes
              + (IF isControlNode(allUnits[target].row, allUnits[target].col)
                   THEN 20000 + Mul(pressure, 15000) ELSE 0)
              \* sniper shot bonus
              + (IF action.ranged THEN 9000 ELSE 0)
  ELSE IF action.type = "move"
    THEN (IF isControlNode(action.to.row, action.to.col)
            THEN 35000 + Mul(pressure, 22000)
            ELSE (6 - dist) * 2200 + Mul(pressure, 3500))
         \* avoid moving into immediate attack range
         - (IF aimedAt(action.unitId, simulateAction(action, allUnits))
              THEN 12000 - Mul(pressure, 4000) ELSE 0)
  ELSE 0

\* pickBotAction(allUnits, pControl, bControl, director) of app.js, plan
\* being its director: what it
\* scored, in the order of botActions, the scored actions after the sort, and
\* the pool whose shuffle gives the returned action (empty when it returns
\* null).  Each scored entry keeps the values the score was made of.
app_pickBotAction(allUnits, pControl, bControl, plan) ==
  LET botActions == enumerateActionsForSide("bot", allUnits)
      \* a - b and a * gamma of numbers that may be -Infinity or Infinity
      minus(a, b) ==
        IF a = NaN \/ b = NaN THEN NaN
        ELSE IF a = Infinity THEN (IF b = Infinity THEN NaN ELSE Infinity)
        ELSE IF a = -Infinity THEN (IF b = -Infinity THEN NaN ELSE -Infinity)
        ELSE IF b = Infinity THEN -Infinity
        ELSE IF b = -Infinity THEN Infinity
        ELSE a - b
      timesGamma(f) == IF f \in {NaN, Infinity, -Infinity} THEN f ELSE Mul(f, 7000)
      plus(a, b) == IF b \in {NaN, Infinity, -Infinity} THEN b ELSE a + b
      \* playerActions.forEach: if (s < bestPlayer) bestPlayer = s
      RECURSIVE forEach(_, _)
      forEach(bestPlayer, replies) ==
        IF replies = <<>> THEN bestPlayer
        ELSE forEach(IF Head(replies) < bestPlayer THEN Head(replies) ELSE bestPlayer,
                     Tail(replies))
      entry(a, immediate, afterBotScore, replies, bestPlayer) ==
        LET ahead ==
              IF plan.depth >= 2 /\ replies # <<>>
                THEN minus(afterBotScore, Max(0, minus(afterBotScore, bestPlayer)))
                ELSE afterBotScore
        IN [action |-> a, immediate |-> immediate, afterBotScore |-> afterBotScore,
            replies |-> replies, bestPlayer |-> bestPlayer,
            score |-> plus(immediate, timesGamma(ahead))]
      replied(a, afterBot, playerActions) ==
        LET replies == [k \in DOMAIN playerActions |->
                          evaluateState(simulateAction(playerActions[k], afterBot), pControl, bControl)]
        IN entry(a, scoreImmediateAction(a, allUnits, plan.aggression, plan.pressure),
                 evaluateState(afterBot, pControl, bControl), replies,
                 forEach(-Infinity, replies))
      scoredOne(a) ==
        LET afterBot == simulateAction(a, allUnits)
        IN replied(a, afterBot,
                   IF plan.depth >= 2 THEN enumerateActionsForSide("player", afterBot) ELSE <<>>)
      scored == [k \in DOMAIN botActions |-> scoredOne(botActions[k])]
      \* adaptive randomness: sample among top-k within a margin
      margin == clamp(8000 + Mul(plan.randomness, 14000), 7000, 18000)
      maxPick == Max(2, (2 * SCALE + plan.randomness * 5 + HALF) \div SCALE)
      pool(sorted) ==
        LET candidates == SelectSeq(sorted, LAMBDA s : s.score >= minus(sorted[1].score, margin))
        IN SubSeq(candidates, 1, Min(maxPick, Len(candidates)))
      picked(sorted) == [scored |-> scored, sorted |-> sorted, pool |-> pool(sorted)]
  IN IF Len(botActions) = 0
       THEN [scored |-> <<>>, sorted |-> <<>>, pool |-> <<>>]
       ELSE picked(SortDesc(<<>>, scored))

\* the units of a match under way, and the control points of the two sides
PlaceUnits ==
  LET mk(id, side, type, row, col, hp, shield) ==
        [id |-> id, side |-> side, type |-> type, row |-> row, col |-> col,
         hp |-> hp, shield |-> shield]
      \* createUnits
      start ==
        <<mk("p1", "player", "trooper", 5, 1, UNIT_HP, 0), mk("p2", "player", "trooper", 5, 3, UNIT_HP, 0),
          mk("p3", "player", "sniper", 5, 5, UNIT_HP, 0),
          mk("b1", "bot", "trooper", 0, 0, UNIT_HP, 0), mk("b2", "bot", "trooper", 0, 2, UNIT_HP, 0),
          mk("b3", "bot", "sniper", 0, 4, UNIT_HP, 0)>>
      Boards ==
        {start, <<mk("p1", "player", "trooper", 5, 1, 2, 0)>>}
        \cup {<<mk("p1", "player", "trooper", 2, 2, hp, shield), mk("b1", "bot", type, row, 2, 2, 0)>> :
                hp \in {1, 2}, shield \in {0, 1}, type \in {"trooper", "sniper"}, row \in {0, 1}}
        \cup {<<mk("p1", "player", "sniper", 4, 2, 1, 0), mk("p2", "player", "trooper", 3, 4, hp, 0),
                mk("b1", "bot", "trooper", 2, 4, 2, shield), mk("b2", "bot", "sniper", 4, col, 1, 0)>> :
                hp \in {1, 2}, shield \in {0, 1}, col \in {3, 4}}
  IN
  /\ director = <<>>
  /\ units = <<>>
  /\ \E board \in Boards, pControl \in {0, 3}, bControl \in {0, 1} :
       units' = [all |-> board, playerControl |-> pControl, botControl |-> bControl]
  /\ last' = <<[op |-> "createUnits"]>>
  /\ UNCHANGED <<director, rng, outcomes, scheduler, controller, player, ema, stats, match, grid, game, convo>>

\* pickBotAction(units, playerControl, botControl, director), with the draw
\* of the shuffle that puts an action of the pool first
CheckpointPick(difficulty) ==
      \* calculateAdaptiveChallenge: the plan of a difficulty
  LET plan == [aggression |-> clamp(2500 + Mul(difficulty, 7500), 2500, 9500),
               pressure |-> clamp(2500 + Mul(difficulty, 7000), 2500, 9000),
               randomness |-> clamp(6500 - Mul(difficulty, 5500), 800, 6500),
               depth |-> IF difficulty >= 5800 THEN 2 ELSE 1]
      done(picked) ==
        \E chosen \in (IF picked.pool = <<>> THEN {<<>>}
                       ELSE {picked.pool[k].action : k \in DOMAIN picked.pool}) :
          last' = <<[op |-> "pickBotAction", director |-> plan, chosen |-> chosen,
                     scored |-> picked.scored, sorted |-> picked.sorted, pool |-> picked.pool]>>
  IN
  /\ units # <<>>
  /\ "playerControl" \in DOMAIN units
  /\ done(app_pickBotAction(units.all, units.playerControl, units.botControl, plan))
  /\ UNCHANGED <<director, rng, outcomes, scheduler, controller, player, ema, stats, units, match, grid, game, convo>>

\* plans of the least, a middling and the greatest difficulty
SpecCheckpoint ==
  Init /\ [][\/ PlaceUnits
             \/ \E difficulty \in {1500, 5000, 5800, 9500} : CheckpointPick(difficulty)]_vars

(***************************************************************************)
(* A FlowController computing for snapshots that differ in fatigue only.   *)
(***************************************************************************)

SpecAssist ==
  Init /\ [][LET FatigueSnapshots ==
                   LET FatigueLevels == {0, 3000, 6000, SCALE}
                   IN
                   {[base EXCEPT !.fatigue = fatigue] :
                      base \in {FreshSnapshot,
                                [FreshSnapshot EXCEPT !.errorRateEma = 9000],
                                [FreshSnapshot EXCEPT !.skillTrend = 9500, !.errorRateEma = 0]},
                      fatigue \in FatigueLevels}
             IN
             \/ NewController
             \/ \E playerSnap \in FatigueSnapshots, beat \in {"training", "challenge", "steady"} :
                  Compute(playerSnap, beat)]_vars

(***************************************************************************)
(* A FlowController computing again and again for a player whose win rate  *)
(* stays on one side of the target, long enough for the bias to drift to   *)
(* its bound (0.18 / 0.015 = 12 calls).                                    *)
(***************************************************************************)
MaxDrifts == 13

SpecBias ==
  Init /\ [][LET WinRateSnapshots ==
                   {[FreshSnapshot EXCEPT !.winRateEma = 0],
                    [FreshSnapshot EXCEPT !.winRateEma = 10000]}
             IN
             \/ NewController
             \/ \E playerSnap \in WinRateSnapshots : ComputeWithin(MaxDrifts, playerSnap, "steady")]_vars

(***************************************************************************)
(* Properties.                                                             *)
(***************************************************************************)
Played(i) == director[i].player.games > 0

C2_FatigueOverride ==
  (scheduler # <<>> /\ last[1].op = "chooseBeat" /\ last[1].playerSnap.fatigue > 6200)
    => /\ last[1].beat = "recovery"
       /\ scheduler.bs.lastBeat = "recovery"
       /\ rng[1] = last[1].rngBefore
       /\ scheduler.bs.arms = last[1].armsBefore

\* the override fired on a scheduler whose arms had learnt and whose last
\* choice had been made by sampling
C2_Witness ==
  /\ scheduler # <<>>
  /\ last[1].op = "chooseBeat"
  /\ last[1].playerSnap.fatigue > 6200
  /\ last[1].armsBefore["recovery"].a > 1
  /\ rng[1] # mulberry32(42)
  /\ last[1].beat = "recovery"

\* C3 as claimed: the Plan's difficulty is >= 0.62 exactly when its depth
\* is 2.
C3_DepthFromPlanDifficulty ==
  \A i \in Instances :
    (director[i].currentPlan.difficulty >= 6200) <=> (director[i].currentPlan.depth = 2)

\* C3 as amended: the Plan's depth is 2 exactly when the difficulty
\* before smoothing (after the bias was added) is >= 0.62, and 1 otherwise.
C3_DepthFromRawDifficulty ==
  \A i \in Instances :
    /\ director[i].currentPlan.depth \in {1, 2}
    /\ (last[i].raw.diff >= 6200) <=> (director[i].currentPlan.depth = 2)

\* a Plan of depth 2 whose smoothed difficulty is below 0.62
C3_Witness ==
  \E i \in Instances :
    /\ last[i].op = "observeGame"
    /\ last[i].plan = director[i].currentPlan
    /\ last[i].plan.depth = 2
    /\ last[i].plan.difficulty < 6200
    /\ last[i].raw.diff >= 6200

\* C4 as claimed: a beat whose cooldown was set by the chooseBeat call
\* before is scored sample + bias - 0.12 in this call, and every beat not on
\* cooldown is scored sample + bias with no penalty.
C4_CooldownPenalises ==
  \A i \in Instances :
    last[i].op = "observeGame" =>
      \A k \in DOMAIN last[i].samples :
        LET s    == last[i].samples[k]
            bias == BeatBias(PlayerModel_snapshot(director[i].player), director[i].cfg)
            due  == IF last[i].cooldownsBefore[s.name] > 0 THEN 1200 ELSE 0
        IN s.score = s.sample + bias[s.name] - due

\* C5: an observeGame call changes exactly one arm, by exactly one update
\* of weight 1, and it is the arm of the beat that was current before the
\* call, not the beat chooseBeat returned in it; afterwards currentBeat is
\* the new beat.
C5_LearnsPreviousBeat ==
  \A i \in Instances :
    last[i].op = "observeGame" =>
      LET before == last[i].armsBefore
          after  == director[i].beats.arms
          beat   == last[i].beatBefore
      IN /\ \A k \in Beats \ {beat} : after[k] = before[k]
         /\ after[beat].a = before[beat].a + (IF last[i].improved THEN 1 ELSE 0)
         /\ after[beat].b = before[beat].b + (IF last[i].improved THEN 0 ELSE 1)
         /\ director[i].currentBeat = last[i].nextBeat

\* a call in which chooseBeat returned another beat than the one played
C5_Witness ==
  \E i \in Instances :
    /\ last[i].op = "observeGame"
    /\ last[i].nextBeat # last[i].beatBefore
    /\ director[i].beats.arms[last[i].beatBefore] # last[i].armsBefore[last[i].beatBefore]

\* C6: arms start at a = 1, b = 1; learn(beat, true) adds 1 to that arm's a
\* and learn(beat, false) adds 1 to its b and nothing else changes; so all
\* weights are >= 1, and an arm with N successes and no failure has mean
\* (N + 1) / (N + 2) (to the rounding of the fixed point), which is below 1.
C6_ArmWeights ==
  scheduler # <<>> =>
    LET arms == scheduler.bs.arms
        l    == last[1]
        view == BeatScheduler_snapshot(scheduler.bs).arms
    IN /\ l.op = "new" => \A k \in Beats : arms[k].a = 1 /\ arms[k].b = 1
       /\ l.op = "learn" =>
            \A k \in Beats :
              /\ arms[k].a = l.armsBefore[k].a
                               + (IF k = l.beat /\ l.improvement THEN 1 ELSE 0)
              /\ arms[k].b = l.armsBefore[k].b
                               + (IF k = l.beat /\ ~l.improvement THEN 1 ELSE 0)
       /\ l.op = "chooseBeat" => arms = l.armsBefore
       /\ \A k \in Beats : arms[k].a >= 1 /\ arms[k].b >= 1
       /\ \A k \in Beats :
            arms[k].b = 1 =>
              LET N == arms[k].a - 1
              IN /\ Abs(view[k].mean * (N + 2) - (N + 1) * SCALE) <= N + 2
                 /\ view[k].mean < SCALE

\* an arm that has learnt two successes and no failure
C6_Witness ==
  /\ scheduler # <<>>
  /\ last[1].op = "learn"
  /\ scheduler.bs.arms["recovery"].a = 3
  /\ scheduler.bs.arms["recovery"].b = 1

\* the length of the run of equal values that ends the sequence s
LatestRun(s) ==
  Cardinality({k \in 1..Len(s) : \A j \in k..Len(s) : s[j] = s[Len(s)]})

\* C7: after every observeGame call the streak is not 0, it is positive
\* exactly when the latest game was won, and its size is the number of
\* latest games in a row with that outcome.
C7_Streak ==
  \A i \in Instances :
    Played(i) =>
      /\ director[i].player.streak # 0
      /\ director[i].player.streak =
           (IF outcomes[Len(outcomes)] THEN 1 ELSE -1) * LatestRun(outcomes)

\* a loss right after a win: the streak is reset to -1
C7_Witness ==
  \E i \in Instances :
    /\ outcomes = <<TRUE, FALSE>>
    /\ director[i].player.streak = -1

\* C8: directors constructed separately with the same explicit seed and
\* configuration and fed the same observations choose the same beats and
\* return the same plans.
C8_SameBeatsAndPlans ==
  \A i, j \in Instances :
    /\ director[i].currentBeat = director[j].currentBeat
    /\ director[i].currentPlan = director[j].currentPlan
    /\ last[i].op = "observeGame" =>
         /\ last[i].nextBeat = last[j].nextBeat
         /\ last[i].plan = last[j].plan

\* two directors after two games, each having sampled its own RNG
C8_Witness ==
  /\ Instances = {1, 2}
  /\ Len(outcomes) = 2
  /\ last[1].op = "observeGame" /\ last[2].op = "observeGame"
  /\ last[1].samples # <<>> /\ last[2].samples # <<>>
  /\ rng[1] # last[1].rngBefore /\ rng[2] # last[2].rngBefore
  /\ last[1].nextBeat = last[2].nextBeat

C12_BiasDrift ==
  [][(controller # <<>> /\ controller' # <<>>
        /\ controller'.computes = controller.computes + 1) =>
       /\ controller'.fc.bias >= -1800
       /\ controller'.fc.bias <= 1800
       /\ Abs(controller'.fc.bias - controller.fc.bias) <= 200
       /\ (last'[1].playerSnap.winRateEma > controller.cfg.targetWinRate
             => controller'.fc.bias >= controller.fc.bias)
       /\ (last'[1].playerSnap.winRateEma < controller.cfg.targetWinRate
             => controller'.fc.bias <= controller.fc.bias)]_vars

\* thirteen calls for a player who keeps losing: the bias is held at -0.18
C12_Witness ==
  /\ controller # <<>>
  /\ controller.computes = 13
  /\ last[1].playerSnap.winRateEma < controller.cfg.targetWinRate
  /\ controller.fc.bias = -1800

\* C13: a recommend() or snapshot() call leaves the director (player model,
\* beat scheduler, flow controller, current beat and plan) and the RNG as
\* they were, and recommend() returns the fields of the plan that the
\* latest constructor, observeTurn or observeGame call computed, however
\* many reads came in between.
C13_PureReads ==
  [][(director # <<>> /\ director' # <<>>
        /\ \A i \in DOMAIN last' : last'[i].op \in {"recommend", "snapshot"}) =>
       /\ director' = director
       /\ rng' = rng
       /\ \A i \in DOMAIN last' :
            /\ last'[i].op = "recommend" =>
                 /\ DOMAIN last'[i].ret = DOMAIN last'[i].plan \cup {"snapshot"}
                 /\ \A k \in DOMAIN last'[i].plan : last'[i].ret[k] = last'[i].plan[k]
            /\ last'[i].op = "snapshot" => last'[i].ret.plan = last'[i].plan]_vars

\* recommend() after a turn and a game have been observed
C13_Witness ==
  /\ director # <<>>
  /\ last[1].op = "recommend"
  /\ director[1].session.turns > 0
  /\ director[1].session.games > 0
  /\ last[1].ret.beat = director[1].currentBeat

\* C14: observeGame with playerWon true raises skill strictly from any
\* skill below 0.98, and with playerWon false (or absent) lowers it strictly
\* from any skill above 0.02, whatever closeGame and comeback are; and on a
\* fresh model (skill 0.50, target win rate 0.58) one win that is neither
\* close nor a comeback leaves skill above 0.50, winRateEma in (0.50, 1.0]
\* and streak 1.
C14_SkillFollowsOutcome ==
  [][(player # <<>> /\ player' # <<>> /\ player'.pm.games = player.pm.games + 1) =>
       /\ (Field(last'[1].result, "playerWon", FALSE) /\ player.pm.skill < 9800)
            => player'.pm.skill > player.pm.skill
       /\ (~Field(last'[1].result, "playerWon", FALSE) /\ player.pm.skill > 200)
            => player'.pm.skill < player.pm.skill
       /\ (/\ player.pm = PlayerModel(player.cfg)
           /\ player.pm.skill = 5000
           /\ player.cfg.targetWinRate = 5800
           /\ last'[1].result = [playerWon |-> TRUE])
            => /\ player'.pm.skill > 5000
               /\ player'.pm.winRateEma.value > 5000
               /\ player'.pm.winRateEma.value <= SCALE
               /\ player'.pm.streak = 1]_vars

\* a fresh default model after one plain win
C14_Witness ==
  /\ player # <<>>
  /\ player.cfg = DirectorCfg(<<>>)
  /\ player.pm.games = 1
  /\ last[1].op = "observeGame"
  /\ last[1].result = [playerWon |-> TRUE]
  /\ player.pm.skill > 5000
  /\ player.pm.streak = 1

\* C15: the first push on an EMA sets value to x exactly, whatever initial
\* value it was constructed with; every later push moves value towards x:
\* the distance |value - x| does not grow, becomes (1 - alpha) times what
\* it was (to the last digit kept), and shrinks strictly while alpha times
\* it is at least one unit of the last digit, which is how repeated pushes
\* of one x converge to x.  push returns the new value.
C15_EmaPush ==
  (ema # <<>> /\ last[1].op = "push") =>
    /\ last[1].ret = ema.e.value
    /\ ema.e.initialized
    /\ ~last[1].before.initialized => ema.e.value = last[1].x
    /\ last[1].before.initialized =>
         /\ Abs(ema.e.value - last[1].x) <= Abs(last[1].before.value - last[1].x)
         /\ Abs((ema.e.value - last[1].x)
                  - Mul(SCALE - ema.e.alpha, last[1].before.value - last[1].x)) <= 1
         /\ Mul(ema.e.alpha, Abs(last[1].before.value - last[1].x)) >= 1
              => Abs(ema.e.value - last[1].x) < Abs(last[1].before.value - last[1].x)

\* a third push, of a value the EMA is still away from
C15_Witness ==
  /\ ema # <<>>
  /\ ema.pushes = 3
  /\ last[1].before.initialized
  /\ last[1].before.value # last[1].x
  /\ ema.e.value # last[1].x
  /\ Abs(ema.e.value - last[1].x) < Abs(last[1].before.value - last[1].x)

\* C16: RunningStats.push of NaN, Infinity or -Infinity leaves n, mean, m2,
\* min and max as they were; after any pushes n is the number of finite
\* values pushed, min <= mean <= max once a finite value was pushed, and
\* variance() is 0 while at most one was.
C16_NonFiniteDropped ==
  stats # <<>> =>
    /\ (last[1].op = "push" /\ last[1].x \in {NaN, Infinity, -Infinity})
         => stats.rs = last[1].before
    /\ stats.rs.n = Cardinality({k \in DOMAIN stats.pushed : IsFinite(stats.pushed[k])})
    /\ stats.rs.n >= 1 => (stats.rs.min <= stats.rs.mean /\ stats.rs.mean <= stats.rs.max)
    /\ stats.rs.n <= 1 => RunningStats_variance(stats.rs) = 0

\* NaN pushed after two different finite values
C16_Witness ==
  /\ stats # <<>>
  /\ Len(stats.pushed) = 3
  /\ last[1].x = NaN
  /\ stats.rs.n = 2
  /\ stats.rs.min < stats.rs.mean
  /\ stats.rs.mean < stats.rs.max
  /\ RunningStats_variance(stats.rs) > 0

\* C17 as claimed: whatever the payload of observeTurn (fields missing,
\* negative, far out of range, infinite or NaN), the values used are
\* turnMs in [200, 60000], actionsTaken in [0, 99] and mistakes in [0, 99],
\* a missing field counting as the target turn time, 0 and 0; and every
\* estimate of the snapshot is then a finite number, with errorRateEma in
\* [0, 1], hesitation in [-1, 1], volatility in [0, 1] and fatigue in [0, 1].
C17_TurnSanitised ==
  (player # <<>> /\ last[1].op = "observeTurn") =>
    /\ 200 <= player.pm.lastTurnMs /\ player.pm.lastTurnMs <= 60000
    /\ 0 <= player.pm.lastActions /\ player.pm.lastActions <= 99
    /\ 0 <= player.pm.lastMistakes /\ player.pm.lastMistakes <= 99
    /\ "turnMs" \notin DOMAIN last[1].summary
         => player.pm.lastTurnMs = player.cfg.turnTimeTargetMs
    /\ "actionsTaken" \notin DOMAIN last[1].summary => player.pm.lastActions = 0
    /\ "mistakes" \notin DOMAIN last[1].summary => player.pm.lastMistakes = 0
    /\ \A f \in DOMAIN PlayerModel_snapshot(player.pm) :
         IsFinite(PlayerModel_snapshot(player.pm)[f])
    /\ 0 <= player.pm.errorRateEma.value /\ player.pm.errorRateEma.value <= SCALE
    /\ -SCALE <= player.pm.hesitationEma.value /\ player.pm.hesitationEma.value <= SCALE
    /\ 0 <= player.pm.volatility.value /\ player.pm.volatility.value <= SCALE
    /\ 0 <= player.pm.fatigue.value /\ player.pm.fatigue.value <= SCALE

\* the same with every NaN payload left out, for comparison: no payload of
\* finite or infinite numbers, and no missing field, breaks it
C17_SanitisedButNaN ==
  (player # <<>> /\ \A k \in DOMAIN player.turnsFed :
                      \A f \in DOMAIN player.turnsFed[k] : player.turnsFed[k][f] # NaN)
    => C17_TurnSanitised

\* C18: on a fresh PlayerModel with turnTimeTargetMs = 7000, after any
\* number n >= 1 of observeTurn calls that all give turnMs = 20000 and no
\* action or mistake count, the fatigue estimate is above 0.3.
C18_SlowTurnsTire ==
  (/\ player # <<>>
   /\ player.cfg.turnTimeTargetMs = 7000
   /\ Len(player.turnsFed) >= 1
   /\ \A k \in DOMAIN player.turnsFed : player.turnsFed[k] = [turnMs |-> 20000])
    => PlayerModel_snapshot(player.pm).fatigue > 3000

\* ten such turns
C18_Witness ==
  /\ player # <<>>
  /\ player.cfg.turnTimeTargetMs = 7000
  /\ player.pm.turns = 10
  /\ \A k \in DOMAIN player.turnsFed : player.turnsFed[k] = [turnMs |-> 20000]
  /\ PlayerModel_snapshot(player.pm).fatigue > 3000

\* C19: of two compute calls in a row with the same beat and snapshots that
\* differ in fatigue only, both fatigues in [0, 1], the call with the higher
\* fatigue has an assist before smoothing that is at least the other's.
C19_AssistMonotone ==
  (/\ controller # <<>>
   /\ last[1].op = "compute"
   /\ last[1].prev # <<>>
   /\ last[1].prev.beat = last[1].beat
   /\ [last[1].prev.playerSnap EXCEPT !.fatigue = last[1].playerSnap.fatigue]
        = last[1].playerSnap
   /\ 0 <= last[1].prev.playerSnap.fatigue
   /\ last[1].playerSnap.fatigue <= SCALE)
    => /\ last[1].prev.playerSnap.fatigue <= last[1].playerSnap.fatigue
          => last[1].prev.raw.assist <= last[1].raw.assist
       /\ last[1].prev.playerSnap.fatigue >= last[1].playerSnap.fatigue
          => last[1].prev.raw.assist >= last[1].raw.assist

\* two calls under "challenge", the second with more fatigue and with more
\* assist before smoothing
C19_Witness ==
  /\ controller # <<>>
  /\ last[1].op = "compute"
  /\ last[1].prev # <<>>
  /\ last[1].beat = "challenge"
  /\ last[1].prev.beat = "challenge"
  /\ [last[1].prev.playerSnap EXCEPT !.fatigue = last[1].playerSnap.fatigue]
       = last[1].playerSnap
  /\ last[1].prev.playerSnap.fatigue < last[1].playerSnap.fatigue
  /\ last[1].prev.raw.assist < last[1].raw.assist

\* what the rules allow unit u to do with action a on the board allUnits:
\* fortify where it stands, step onto a free neighbouring tile, strike an
\* enemy on a neighbouring tile, or, a sniper, shoot an enemy in line
Allowed(a, u, allUnits) ==
  \/ a = [type |-> "fortify", unitId |-> u.id, to |-> [r |-> u.r, c |-> u.c]]
  \/ /\ a.type \in {"move", "attack"}
     /\ Abs(a.to.r - u.r) + Abs(a.to.c - u.c) = 1
     /\ a.to.r \in 0..6 /\ a.to.c \in 0..6
     /\ \/ /\ a = [type |-> "move", unitId |-> u.id, to |-> a.to]
           /\ \A k \in DOMAIN allUnits : ~(allUnits[k].r = a.to.r /\ allUnits[k].c = a.to.c)
        \/ /\ a = [type |-> "attack", unitId |-> u.id, targetId |-> a.targetId,
                    to |-> a.to, ranged |-> FALSE]
           /\ \E k \in DOMAIN allUnits :
                /\ allUnits[k].id = a.targetId
                /\ allUnits[k].side # u.side
                /\ allUnits[k].r = a.to.r /\ allUnits[k].c = a.to.c
  \/ /\ a.type = "attack"
     /\ a = [type |-> "attack", unitId |-> u.id, targetId |-> a.targetId,
              to |-> a.to, ranged |-> TRUE]
     /\ u.type = "sniper"
     /\ \E k \in DOMAIN allUnits :
          /\ allUnits[k].id = a.targetId
          /\ allUnits[k].side # u.side
          /\ allUnits[k].r = a.to.r /\ allUnits[k].c = a.to.c
          /\ canLineAttack(u, allUnits[k], allUnits)

\* C20: pickBotAction returns null, leaving the units as they were, when
\* the bot has no legal action, which is when it has no unit (a unit can
\* always fortify); otherwise it returns an action that the rules allow one
\* of the bot's units.
C20_PickIsLegalOrNull ==
  (units # <<>> /\ last[1].op = "pickBotAction") =>
    /\ units.all = last[1].allUnits
    /\ (last[1].chosen = <<>>)
         <=> (\A k \in DOMAIN units.all : units.all[k].side # "bot")
    /\ last[1].chosen # <<>> =>
         \E k \in DOMAIN units.all :
           /\ units.all[k].side = "bot"
           /\ Allowed(last[1].chosen, units.all[k], units.all)

\* null for a board on which only the player has units
C20_Witness ==
  /\ units # <<>>
  /\ last[1].op = "pickBotAction"
  /\ Len(units.all) = 2
  /\ last[1].chosen = <<>>

\* C21: the actions pickBotAction can return are exactly the bot actions
\* whose score is at least the best score less the margin
\* clamp(0.8 + randomness * 1.6, 0.7, 2.0), and the draws of the shuffle give
\* each of them the same number of ways to be returned.
C21_WholeWindowSampled ==
  (units # <<>> /\ last[1].op = "pickBotAction" /\ last[1].scored # <<>>) =>
    LET scored == last[1].scored
        returns == last[1].returns
        margin == clamp(8000 + Mul(last[1].rec.randomness, 16000), 7000, 20000)
        inWindow == {scored[k].action : k \in {j \in DOMAIN scored :
                                                 scored[j].score >= scored[1].score - margin}}
        ways(a) == Cardinality({draws \in DOMAIN returns : returns[draws] = a})
    IN /\ {returns[draws] : draws \in DOMAIN returns} = inWindow
       /\ \A a, b \in inWindow : ways(a) = ways(b)

\* what holds of the sample: it is drawn, each with the same number of ways,
\* from the best-scored actions of the window, at most
\* max(2, round(2 + randomness * 6)) of them
C21_TopOfWindowSampled ==
  (units # <<>> /\ last[1].op = "pickBotAction" /\ last[1].scored # <<>>) =>
    LET scored == last[1].scored
        returns == last[1].returns
        margin == clamp(8000 + Mul(last[1].rec.randomness, 16000), 7000, 20000)
        maxPick == Max(2, (2 * SCALE + last[1].rec.randomness * 6 + HALF) \div SCALE)
        pool == {j \in DOMAIN scored : scored[j].score >= scored[1].score - margin}
        top == {scored[k].action : k \in {j \in pool : j <= maxPick}}
        ways(a) == Cardinality({draws \in DOMAIN returns : returns[draws] = a})
    IN /\ {returns[draws] : draws \in DOMAIN returns} = top
       /\ \A a, b \in top : ways(a) = ways(b)

\* a window that holds more actions than pickBotAction keeps
C21_WindowCut ==
  /\ units # <<>>
  /\ last[1].op = "pickBotAction"
  /\ last[1].scored # <<>>
  /\ Cardinality({last[1].returns[draws] : draws \in DOMAIN last[1].returns})
       < Cardinality({j \in DOMAIN last[1].scored :
                        last[1].scored[j].score
                          >= last[1].scored[1].score
                               - clamp(8000 + Mul(last[1].rec.randomness, 16000), 7000, 20000)})

\* the least value of evalState over the player's replies to the units afterBot
BestMin(afterBot, pB, bB) ==
  LET replies == actionsForSide("player", afterBot)
      values == {evalState(applyAction(replies[k], afterBot), pB, bB) : k \in DOMAIN replies}
  IN CHOOSE m \in values : \A v \in values : m <= v

\* C22: every bot action is scored immediateHeuristic + 0.75 * future, where
\* future is min(botAfter, bestMin) when the depth is 2 or more and the
\* player has a reply to the action, and botAfter otherwise; botAfter is
\* evalState after the action, bestMin the least evalState over the replies.
C22_ScoreIsLookahead ==
  (units # <<>> /\ last[1].op = "pickBotAction") =>
    \A k \in DOMAIN last[1].scored :
      LET a == last[1].scored[k].action
          afterBot == applyAction(a, units.all)
          pB == units.playerBeaconScore
          bB == units.botBeaconScore
          botAfter == evalState(afterBot, pB, bB)
          answered == /\ last[1].rec.depth >= 2
                      /\ \E j \in DOMAIN afterBot : afterBot[j].side = "player"
          expected == IF answered THEN Min(botAfter, BestMin(afterBot, pB, bB)) ELSE botAfter
      IN last[1].scored[k].score = immediateHeuristic(a, units.all) + Mul(7500, expected)

\* at depth 2, an action whose value the player's best reply lowers, and an
\* action that leaves the player without a reply
C22_Witness ==
  /\ units # <<>>
  /\ last[1].op = "pickBotAction"
  /\ last[1].rec.depth >= 2
  /\ \E k \in DOMAIN last[1].scored :
       LET afterBot == applyAction(last[1].scored[k].action, units.all)
       IN /\ \E j \in DOMAIN afterBot : afterBot[j].side = "player"
          /\ BestMin(afterBot, units.playerBeaconScore, units.botBeaconScore)
               < evalState(afterBot, units.playerBeaconScore, units.botBeaconScore)
  /\ \E k \in DOMAIN last[1].scored :
       LET afterBot == applyAction(last[1].scored[k].action, units.all)
       IN \A j \in DOMAIN afterBot : afterBot[j].side # "player"

\* C23: once Back or Reset Run has been pressed while a timer of the bot was
\* pending, no timer is left pending, and from then on no bot action is
\* applied to the units, the turn counter and the beacon scores do not
\* advance (Reset Run may set them back), and the director is not updated.
C23_AbandonIsSafe ==
  [][(match # <<>> /\ match.abandoned) =>
       /\ match'.abandoned
       /\ match'.timers = {}
       /\ director' = director
       /\ match'.units \in {match.units, <<>>}
       /\ match'.turn \in {match.turn, 1}
       /\ match'.playerBeaconScore \in {match.playerBeaconScore, 0}
       /\ match'.botBeaconScore \in {match.botBeaconScore, 0}]_vars

\* Back pressed between the bot's two actions
C23_Witness ==
  /\ match # <<>>
  /\ match.abandoned
  /\ last[1].op = "back"
  /\ last[1].pending = {"actOnce"}
  /\ match.timers = {}

\* Reset Run pressed during the pacing delay
C23_WitnessReset ==
  /\ match # <<>>
  /\ match.abandoned
  /\ last[1].op = "resetRun"
  /\ last[1].pending = {"botActSequence"}

C24_WitnessPlayer ==
  /\ match # <<>>
  /\ match.finished = 1
  /\ last[1].op = "endTurn"
  /\ match.progress.wins = 1

\* C25: points is a non-negative multiple of 100; a win adds 100; a loss
\* takes 100 away but never takes the points below the checkpoint base
\* floor(points / 1000) * 1000 they had; so the checkpoint level
\* floor(points / 1000) never falls with a result.
C25_CheckpointsHold ==
  match # <<>> =>
    /\ match.progress.points >= 0
    /\ match.progress.points % 100 = 0
    /\ last[1].op = "finishMatch" =>
         LET before == last[1].before.points
             base == (before \div 1000) * 1000
         IN /\ last[1].playerWon => match.progress.points = before + 100
            /\ ~last[1].playerWon =>
                 match.progress.points = (IF before - 100 < base THEN base ELSE before - 100)
            /\ match.progress.points \div 1000 >= before \div 1000

\* a loss at the checkpoint base 1000, which leaves the points there
C25_Witness ==
  /\ match # <<>>
  /\ last[1].op = "finishMatch"
  /\ ~last[1].playerWon
  /\ last[1].before.points = 1000
  /\ match.progress.points = 1000
\* C28: through the director's API the fatigue estimate never exceeds
\* 0.35 * 1.5 + 0.12 * 0.65 = 0.603, so observeTurn never switches the beat
\* to "recovery" on its fatigue rule and every chooseBeat ranks its scored
\* samples instead of taking the hard fatigue rule
C28_FatigueCapped ==
  \A i \in DOMAIN director :
    /\ director[i].player.fatigue.value <= 6030
    /\ (last[i].op = "observeTurn") => (director[i].currentBeat = last[i].beatBefore)
    /\ (last[i].op = "observeGame") => (last[i].samples # <<>>)

\* a turn at the slowdown cap has been observed: fatigue stands at 0.525 or more
C28_Witness ==
  \E i \in DOMAIN director :
    /\ last[i].op = "observeTurn"
    /\ director[i].session.turns >= 1
    /\ director[i].player.fatigue.value >= 5250

\* C27: in a table of buildGrundy, from every position of non-zero value
\* getBotMove answers a legal move to a position of value 0, and every
\* legal move from a position of value 0 leads to a non-zero one; so the
\* bot, opening from a chooseStartState position, always moves from a
\* non-zero position, leaves the opponent a zero one, and is the one who
\* moves to (0,0)
C27_BotPlaysPerfectly ==
  game # <<>> =>
    LET g == game[1]
        legalTo(x, y, move) ==
          \E k \in 1..Max(x, y) :
            \/ move.toX = x - k /\ move.toY = y /\ k <= x
            \/ move.toX = x /\ move.toY = y - k /\ k <= y
            \/ move.toX = x - k /\ move.toY = y - k /\ k <= Min(x, y)
        perfectAt(x, y) ==
          IF g.grundy[x][y] # 0
            THEN LET move == getBotMove([g EXCEPT !.x = x, !.y = y])
                 IN /\ move # <<>>
                    /\ legalTo(x, y, move)
                    /\ g.grundy[move.toX][move.toY] = 0
            ELSE \A x2 \in 0..x, y2 \in 0..y :
                   legalTo(x, y, [toX |-> x2, toY |-> y2]) => g.grundy[x2][y2] # 0
    IN /\ (g.mover = "") => (\A x \in 0..g.N, y \in 0..g.N : perfectAt(x, y))
       /\ g.botToMove => g.grundy[g.x][g.y] # 0
       /\ ~g.botToMove => g.grundy[g.x][g.y] = 0
       /\ (g.x = 0 /\ g.y = 0) => g.mover = "bot"

\* the bot has just moved to (0,0) in a game the opponent took part in
C27_Witness ==
  /\ game # <<>>
  /\ game[1].x = 0 /\ game[1].y = 0
  /\ game[1].mover = "bot"
  /\ game[1].reasoning = "cold_target"
  /\ game[1].from[1] # game[1].from[2]
  /\ game[1].N = 20

\* C29: the bot marks a cell only in reply to a player move of the current
\* match: at every mark of botMove playerTurn is false, and the timer that
\* made it was set in the match the mark lands in
C29_BotRepliesInMatch ==
  (grid # <<>> /\ grid[1].marked # <<>>) =>
    /\ ~grid[1].marked.playerTurn
    /\ grid[1].marked.setIn = grid[1].marked.match

\* the same within the first match, which no earlier timer can reach
C29_FirstMatchReplies ==
  (grid # <<>> /\ grid[1].marked # <<>> /\ grid[1].marked.match = 1) =>
    /\ ~grid[1].marked.playerTurn
    /\ grid[1].marked.setIn = 1

\* a match played to its last turn and resolved
C29_Resolved ==
  /\ grid # <<>>
  /\ grid[1].state.totalGames = 1
  /\ grid[1].totalMoves = MAX_MATCH_TURNS

\* C30: assistant messages are appended in the order sendAssistant was
\* called: the assistant messages delivered carry rising call numbers, and
\* no call still pending was made before one already delivered
C30_DeliveredInSendOrder ==
  convo # <<>> =>
    LET delivered == SelectSeq(convo[1].messages, LAMBDA m : m.role = "assistant")
    IN /\ \A i, j \in DOMAIN delivered : i < j => delivered[i].sent < delivered[j].sent
       /\ \A i \in DOMAIN delivered, t \in convo[1].pending : delivered[i].sent < t.sent

\* the outro is in the conversation while the reply sent before it is
\* still pending
C30_OutroBeforeReply ==
  /\ convo # <<>>
  /\ \E i \in DOMAIN convo[1].messages : convo[1].messages[i].text = "outro"
  /\ \E t \in convo[1].pending : t.text = "reply"

\* C26: in pickBotAction of app.js with director.depth >= 2, for every bot
\* action after which the player has a legal reply, bestPlayer is the least
\* of evaluateState over the player's replies, and the action's score is the
\* finite number immediate + 0.7 * (afterBotScore - max(0, afterBotScore -
\* bestPlayer)).
C26_BestPlayerIsMinimum ==
  (units # <<>> /\ last[1].op = "pickBotAction" /\ "director" \in DOMAIN last[1]
     /\ last[1].director.depth >= 2) =>
    \A k \in DOMAIN last[1].scored :
      LET s == last[1].scored[k]
          Replies == {s.replies[i] : i \in DOMAIN s.replies}
      IN s.replies # <<>> =>
           /\ s.bestPlayer \in Replies
           /\ \A e \in Replies : s.bestPlayer <= e
           /\ s.score \notin {Infinity, -Infinity, NaN}
           /\ s.score = s.immediate
                          + Mul(7000, s.afterBotScore - Max(0, s.afterBotScore - s.bestPlayer))

\* a depth-2 pick in which the player had a reply to some bot action
C26_ReplyConsidered ==
  /\ units # <<>>
  /\ last[1].op = "pickBotAction"
  /\ "director" \in DOMAIN last[1]
  /\ last[1].director.depth >= 2
  /\ \E k \in DOMAIN last[1].scored : last[1].scored[k].replies # <<>>

=============================================================================
